---------------------------- MODULE Spec2Model ----------------------------
(***************************************************************************)
(* A model of the microps userspace TCP/IP stack core:                     *)
(*   - the ARP resolver and its neighbour cache  (arp.c)                   *)
(*   - protocol ingress queues and the softirq drain (net.c)               *)
(*   - the sleep/wakeup/interrupt scheduler primitive (sched.c)            *)
(*   - the interrupt (event) thread, its start-up barrier and shutdown     *)
(*     (intr.c, net.c)                                                     *)
(* Each component has its own specification over the shared variables; the *)
(* variables of the other components stay at their initial value.          *)
(***************************************************************************)
EXTENDS Integers, Sequences, FiniteSets, TLC

(***************************************************************************)
(* Bounds of the model.                                                    *)
(***************************************************************************)
\* number of slots of the neighbour cache (ARP_CACHE_SIZE is 32 in arp.c)
CacheSlots == 2
\* gettimeofday() returns values up to MaxTime
MaxTime == 2
\* threads calling sched_sleep on one context
NumSleepers == 3
\* frames handed to net_input_handler in one run
MaxFrames == 4

(***************************************************************************)
(* Program constants.                                                      *)
(***************************************************************************)
ARP_HRD_ETHER == 1
ARP_OP_REQUEST == 1
ARP_OP_REPLY == 2
ARP_CACHE_STATE_FREE == 0
ARP_CACHE_STATE_INCOMPLETE == 1
ARP_CACHE_STATE_RESOLVED == 2
ARP_CACHE_STATE_STATIC == 3
\* ETHER_TYPE_IP (0x0800), the value of ARP_PRO_IP
ARP_PRO_IP == 2048
\* ETHER_ADDR_LEN and IP_ADDR_LEN, the hln and pln a message must carry
ETHER_ADDR_LEN == 6
IP_ADDR_LEN == 4
\* sizeof(struct arp_ether_ip): 8 bytes of header, 6 + 4 + 6 + 4 of addresses
ARP_ETHER_IP_SIZE == 28

\* protocol addresses (one more than there are slots, so that a full cache
\* can miss); 0 is the zeroed address of a FREE slot
Addrs == {1, 2, 3}
\* hardware addresses; 0 is the zeroed address
HwAddrs == {1, 2}
Slots == 1..CacheSlots
\* the hardware address of our device, which no other host has
OurHa == Cardinality(HwAddrs) + 1
\* user threads calling arp_resolve
Threads == {1}
\* threads that sleep on the scheduler context
Sleepers == 1..NumSleepers
\* the unicast address of the IP interface of the receiving device
OurIp == CHOOSE a \in Addrs : \A b \in Addrs : b <= a
\* content of a caller's output buffer that arp_resolve has not written
Unwritten == -1
\* NULL, for an index into caches
NULL == 0

VARIABLES
  caches,   \* arp.c: static struct arp_cache caches[ARP_CACHE_SIZE]
  now,      \* the wall clock gettimeofday() reads
  inp,      \* the event thread inside arp_input: pc, message, locals
  res,      \* each user thread inside arp_resolve: pc, arguments, result
  rep,      \* history: an address missed, then the reply that followed
  wire,     \* the last frame handed to net_device_output, see NoFrame
  ctx,      \* sched.c: struct sched_ctx, its interrupted flag and wc
  slp,      \* each thread using the context: where it is in sched_sleep
  marked,   \* history: the waiters parked when sched_interrupt was called
  mainpc,   \* the application thread: where it is in net_run / net_shutdown
  ethr,     \* intr_thread: its position, its terminate flag, the signal taken
  sigpend,  \* signals pending for the event thread (all blocked by sigmask)
  tid,      \* sched.c: the static tid
  timer,    \* the interval timer of intr_timer_setup is armed
  opened,   \* the registered devices are up
  inflight, \* history: net_shutdown was called while a handler was running
  protocols, \* net.c: the protocols list, head first, as protocol types
  queues,    \* the input queue of each protocol
  raised,    \* the softirq signal is pending
  drain,     \* net_softirq_handler: idle, or the list position it is at
  delivered, \* history: the entries each protocol's handler was called with
  nframes,   \* frames handed to net_input_handler so far
  netret,    \* what the last net_input_handler returned
  registered, \* history: the protocol types in the order of registration
  devices,   \* net.c: each registered device, its UP flag, mtu and ifaces list
  devret,    \* the last call on a device and what it returned
  events,    \* net.c: the events list, head first
  evpending, \* the event signal is pending for the event thread
  evcalls,   \* history: the calls the last net_event_handler made, in order
  timers,    \* net.c: the timers list, head first
  tclock,    \* the wall clock net_timer_register and net_timer_handler read
  tick,      \* net_timer_handler: its place in the list, the calls so far
  irqs,      \* the irqs list of intr_request_irq, head first
  sigmask,   \* the IRQ numbers intr_request_irq has added to sigmask
  irqret,    \* the last intr_request_irq call and what it returned
  mutex,     \* arp.c: the mutex of the cache, as the set of its holders
  out        \* a thread inside net_device_output: pc, caller, device, length

arp_vars == <<caches, now, inp, res, rep, wire>>

sched_vars == <<ctx, slp, marked>>

intr_vars == <<mainpc, ethr, sigpend, tid, timer, opened, inflight>>

net_vars == <<protocols, queues, raised, drain, delivered, nframes, netret,
              registered>>

dev_vars == <<devices, devret>>

event_vars == <<events, evpending, evcalls>>

timer_vars == <<timers, tclock, tick>>

irq_vars == <<irqs, sigmask, irqret>>

vars == <<caches, now, inp, res, rep, wire, ctx, slp, marked,
          mainpc, ethr, sigpend, tid, timer, opened, inflight,
          protocols, queues, raised, drain, delivered, nframes, netret,
          registered,
          devices, devret,
          events, evpending, evcalls,
          timers, tclock, tick,
          irqs, sigmask, irqret, mutex, out>>

\* what the steps of one component leave alone
not_arp == <<sched_vars, intr_vars, net_vars, dev_vars, event_vars,
             timer_vars, irq_vars, mutex, out>>

not_sched == <<arp_vars, intr_vars, net_vars, dev_vars, event_vars,
               timer_vars, irq_vars, mutex, out>>

not_intr == <<arp_vars, sched_vars, net_vars, dev_vars, event_vars,
              timer_vars, irq_vars, mutex, out>>

not_net == <<arp_vars, sched_vars, intr_vars, dev_vars, event_vars,
             timer_vars, irq_vars, mutex, out>>

not_dev == <<arp_vars, sched_vars, intr_vars, net_vars, event_vars,
             timer_vars, irq_vars, mutex, out>>

not_event == <<arp_vars, sched_vars, intr_vars, net_vars, dev_vars,
               timer_vars, irq_vars, mutex, out>>

not_timer == <<arp_vars, sched_vars, intr_vars, net_vars, dev_vars,
               event_vars, irq_vars, mutex, out>>

not_irq == <<arp_vars, sched_vars, intr_vars, net_vars, dev_vars, event_vars,
             timer_vars, mutex, out>>

(***************************************************************************)
(* The neighbour cache (arp.c).                                            *)
(***************************************************************************)
\* a slot after arp_cache_delete, which is also a slot of the zeroed array
FreeEntry ==
  [state |-> ARP_CACHE_STATE_FREE, pa |-> 0, ha |-> 0, timestamp |-> 0]

\* timercmp(a, b, >)
timercmp_gt(a, b) == a > b

\* the values gettimeofday() may return at clock value t: time does not go
\* back, and two calls may read the same value
GetTimeOfDay(t) == {u \in {t, t + 1} : u <= MaxTime}

arp_cache_delete(c, i) == [c EXCEPT ![i] = FreeEntry]

\* the loop of arp_cache_alloc over slots 1..i with `oldest` carried along:
\* the result is <<"free", slot>> when a FREE slot is met, else
\* <<"oldest", slot>> with the running oldest slot
RECURSIVE AllocScan(_, _, _)
AllocScan(c, i, oldest) ==
  IF i > CacheSlots THEN <<"oldest", oldest>>
  ELSE IF c[i].state = ARP_CACHE_STATE_FREE THEN <<"free", i>>
  ELSE IF oldest = NULL \/ timercmp_gt(c[oldest].timestamp, c[i].timestamp)
       THEN AllocScan(c, i + 1, i)
       ELSE AllocScan(c, i + 1, oldest)

\* arp_cache_alloc: the slot returned and the cache after the call
arp_cache_alloc(c) ==
  LET r == AllocScan(c, 1, NULL)
  IN  IF r[1] = "free"
      THEN [slot |-> r[2], caches |-> c]
      ELSE [slot |-> r[2], caches |-> arp_cache_delete(c, r[2])]

\* arp_cache_select: the first slot that is not FREE and holds pa, or NULL
RECURSIVE SelectScan(_, _, _)
SelectScan(c, pa, i) ==
  IF i > CacheSlots THEN NULL
  ELSE IF c[i].state # ARP_CACHE_STATE_FREE /\ c[i].pa = pa THEN i
  ELSE SelectScan(c, pa, i + 1)

arp_cache_select(c, pa) == SelectScan(c, pa, 1)

\* arp_cache_update without the assignment of ARP_CACHE_STATE_RESOLVED
arp_cache_update_keeps_state(c, pa, ha, t) ==
  LET i == SelectScan(c, pa, 1)
  IN  IF i = NULL
      THEN [slot |-> NULL, caches |-> c]
      ELSE [slot |-> i,
            caches |-> [c EXCEPT ![i].ha = ha, ![i].timestamp = t]]

\* arp_cache_update at time t: the slot (NULL if none) and the cache after
arp_cache_update(c, pa, ha, t) ==
  LET i == arp_cache_select(c, pa)
  IN  IF i = NULL
      THEN [slot |-> NULL, caches |-> c]
      ELSE [slot |-> i,
            caches |-> [c EXCEPT ![i].state = ARP_CACHE_STATE_RESOLVED,
                                 ![i].ha = ha,
                                 ![i].timestamp = t]]

\* arp_cache_insert that takes the slot and leaves it as it found it
arp_cache_insert_nothing(c, pa, ha, t) ==
  LET a == arp_cache_alloc(c)
  IN  [slot |-> a.slot, caches |-> c]

\* arp_cache_insert at time t
arp_cache_insert(c, pa, ha, t) ==
  LET a == arp_cache_alloc(c)
  IN  [slot |-> a.slot,
       caches |-> [a.caches EXCEPT ![a.slot] =
                     [state |-> ARP_CACHE_STATE_RESOLVED, pa |-> pa,
                      ha |-> ha, timestamp |-> t]]]

(***************************************************************************)
(* ARP messages and the two entry points (arp.c).                          *)
(***************************************************************************)
\* the well-formed messages fed to arp_input: requests and replies that are
\* addressed to us (tpa = OurIp) or gratuitous (tpa = spa)
ValidMsgs ==
  {m \in [len : {ARP_ETHER_IP_SIZE}, hrd : {ARP_HRD_ETHER},
          hln : {ETHER_ADDR_LEN}, pro : {ARP_PRO_IP}, pln : {IP_ADDR_LEN},
          op : {ARP_OP_REQUEST, ARP_OP_REPLY},
          sha : HwAddrs, spa : Addrs, tpa : Addrs] :
     m.tpa \in {OurIp, m.spa}}

\* one message per check of arp_input that rejects it
InvalidMsgs ==
  LET m == [len |-> ARP_ETHER_IP_SIZE, hrd |-> ARP_HRD_ETHER,
            hln |-> ETHER_ADDR_LEN, pro |-> ARP_PRO_IP, pln |-> IP_ADDR_LEN,
            op |-> ARP_OP_REPLY, sha |-> 1, spa |-> 1, tpa |-> OurIp]
  IN  {[m EXCEPT !.len = ARP_ETHER_IP_SIZE - 1],
       [m EXCEPT !.hrd = ARP_HRD_ETHER + 1],
       [m EXCEPT !.hln = ETHER_ADDR_LEN + 2],
       [m EXCEPT !.pro = ARP_PRO_IP + 1],
       [m EXCEPT !.pln = IP_ADDR_LEN + 12]}

Msgs == ValidMsgs \cup InvalidMsgs

\* the checks at the head of arp_input without the one of hln
arp_input_valid_skips_hln(m) ==
  /\ ~(m.len < ARP_ETHER_IP_SIZE)
  /\ ~(m.hrd # ARP_HRD_ETHER)
  /\ ~(m.pro # ARP_PRO_IP \/ m.pln # IP_ADDR_LEN)

\* the three checks at the head of arp_input
arp_input_valid(m) ==
  /\ ~(m.len < ARP_ETHER_IP_SIZE)
  /\ ~(m.hrd # ARP_HRD_ETHER \/ m.hln # ETHER_ADDR_LEN)
  /\ ~(m.pro # ARP_PRO_IP \/ m.pln # IP_ADDR_LEN)

NoMsg == [len |-> 0]

\* wire is the last frame handed to net_device_output; NoFrame: none yet.
\* A call of arp_resolve starts with NoFrame, so that after the call wire
\* tells what that call has sent.
NoFrame == [len |-> 0]

\* iface->dev->broadcast, the Ethernet broadcast address
EtherBroadcast == 255

\* arp_request on our interface: the message it builds, with tha zeroed,
\* and the broadcast destination it passes to net_device_output
arp_request(tpa) ==
  [len |-> ARP_ETHER_IP_SIZE, hrd |-> ARP_HRD_ETHER, pro |-> ARP_PRO_IP,
   hln |-> ETHER_ADDR_LEN, pln |-> IP_ADDR_LEN, op |-> ARP_OP_REQUEST,
   sha |-> OurHa, spa |-> OurIp, tha |-> 0, tpa |-> tpa,
   dst |-> EtherBroadcast]

arp_reply_unaddressed(tha, tpa, dst) ==
  [len |-> ARP_ETHER_IP_SIZE, hrd |-> ARP_HRD_ETHER, pro |-> ARP_PRO_IP,
   hln |-> ETHER_ADDR_LEN, pln |-> IP_ADDR_LEN, op |-> ARP_OP_REPLY,
   sha |-> OurHa, spa |-> OurIp, tha |-> 0, tpa |-> tpa, dst |-> dst]

\* arp_reply on our interface: the message it builds and the Ethernet
\* destination it passes to net_device_output
arp_reply(tha, tpa, dst) ==
  [len |-> ARP_ETHER_IP_SIZE, hrd |-> ARP_HRD_ETHER, pro |-> ARP_PRO_IP,
   hln |-> ETHER_ADDR_LEN, pln |-> IP_ADDR_LEN, op |-> ARP_OP_REPLY,
   sha |-> OurHa, spa |-> OurIp, tha |-> tha, tpa |-> tpa, dst |-> dst]

InpIdle == [pc |-> "idle", msg |-> NoMsg, marge |-> 0]

ResIdle == [pc |-> "idle", pa |-> 0, ret |-> "NONE", ha |-> Unwritten]

(***************************************************************************)
(* History, kept for the claims about a reply that follows a miss.  It     *)
(* follows one address, rep.pa, fixed at the start (0: none is followed):  *)
(* phase "missed" after arp_resolve missed it, "replied" with the sender   *)
(* hardware address once arp_input has taken a reply from it; live tells   *)
(* that the reply was merged into an entry that has not been evicted       *)
(* since.                                                                  *)
(***************************************************************************)
RepNone == [pa |-> 0, phase |-> "none", ha |-> 0, live |-> FALSE]

RepFollow(pa) == [pa |-> pa, phase |-> "none", ha |-> 0, live |-> FALSE]

RepMissed(pa) == [pa |-> pa, phase |-> "missed", ha |-> 0, live |-> FALSE]

\* the history after arp_resolve missed pa
RepMiss(r, pa) == IF r.pa = pa THEN RepMissed(pa) ELSE r

\* the history after the entry of slot i of cache c is given up
RepEvict(r, c, i) ==
  IF /\ i # NULL
     /\ c[i].state # ARP_CACHE_STATE_FREE
     /\ c[i].pa = r.pa
     /\ \A j \in Slots :
          (j < i /\ c[j].state # ARP_CACHE_STATE_FREE) => c[j].pa # c[i].pa
  THEN [r EXCEPT !.live = FALSE]
  ELSE r

\* the history after arp_input has run its update for message m
RepInput(r, m, hit) ==
  IF r.pa # m.spa \/ r.phase = "none" THEN r
  ELSE IF m.op = ARP_OP_REPLY
  THEN [pa |-> r.pa, phase |-> "replied", ha |-> m.sha, live |-> hit]
  ELSE RepMissed(r.pa)

\* arp_input up to the first mutex_unlock: the checks, then the update of the
\* sender's entry under the lock
ArpInputUpdate(m) ==
  /\ inp.pc = "idle"
  /\ IF ~arp_input_valid(m)
     THEN UNCHANGED <<caches, now, inp, rep>>
     ELSE \E t \in GetTimeOfDay(now) :
            LET u == arp_cache_update(caches, m.spa, m.sha, t)
            IN  /\ caches' = u.caches
                /\ now' = IF u.slot # NULL THEN t ELSE now
                /\ inp' = [pc |-> "iface", msg |-> m,
                           marge |-> IF u.slot # NULL THEN 1 ELSE 0]
                /\ rep' = RepInput(rep, m, u.slot # NULL)
  /\ UNCHANGED <<res, wire>>

\* arp_input from net_device_get_iface to the second mutex_unlock: the
\* insert of the sender's entry when the message is for us and nothing was
\* merged.  hasIface: the device has an IP interface (its unicast is OurIp).
ArpInputInsert(hasIface) ==
  /\ inp.pc = "iface"
  /\ IF hasIface /\ OurIp = inp.msg.tpa
     THEN /\ IF inp.marge = 0
             THEN \E t \in GetTimeOfDay(now) :
                    LET a == arp_cache_insert(caches, inp.msg.spa,
                                              inp.msg.sha, t)
                    IN  /\ caches' = a.caches
                        /\ now' = t
                        /\ rep' = RepEvict(rep, caches, a.slot)
             ELSE UNCHANGED <<caches, now, rep>>
          /\ inp' = IF inp.msg.op = ARP_OP_REQUEST
                    THEN [inp EXCEPT !.pc = "reply"]
                    ELSE InpIdle
     ELSE /\ inp' = InpIdle
          /\ UNCHANGED <<caches, now, rep>>
  /\ UNCHANGED <<res, wire>>

\* arp_input: the arp_reply for a request, and the return
ArpInputReply ==
  /\ inp.pc = "reply"
  /\ wire' = arp_reply(inp.msg.sha, inp.msg.spa, inp.msg.sha)
  /\ inp' = InpIdle
  /\ UNCHANGED <<caches, now, res, rep>>

\* arp_resolve's locked part without the check for an INCOMPLETE entry
arp_resolve_locked_no_incomplete_check(c, pa, t) ==
  LET sel == arp_cache_select(c, pa)
  IN  IF sel = NULL
      THEN LET a == arp_cache_alloc(c)
           IN  [ret |-> "INCOMPLETE",
                caches |-> [a.caches EXCEPT
                   ![a.slot].state = ARP_CACHE_STATE_INCOMPLETE,
                   ![a.slot].pa = pa,
                   ![a.slot].timestamp = t],
                slot |-> a.slot, ha |-> Unwritten]
      ELSE [ret |-> "FOUND", caches |-> c, slot |-> NULL, ha |-> c[sel].ha]

\* the part of arp_resolve that runs with the mutex held, at time t: the
\* result it leads to, the cache after it, the slot it allocated (NULL if
\* none) and what it copies to the caller's buffer
arp_resolve_locked(c, pa, t) ==
  LET sel == arp_cache_select(c, pa)
  IN  IF sel = NULL
      THEN LET a == arp_cache_alloc(c)
           IN  IF a.slot = NULL
               THEN [ret |-> "ERROR", caches |-> c, slot |-> NULL,
                     ha |-> Unwritten]
               ELSE [ret |-> "INCOMPLETE",
                     caches |-> [a.caches EXCEPT
                        ![a.slot].state = ARP_CACHE_STATE_INCOMPLETE,
                        ![a.slot].pa = pa,
                        ![a.slot].timestamp = t],
                     slot |-> a.slot, ha |-> Unwritten]
      ELSE IF c[sel].state = ARP_CACHE_STATE_INCOMPLETE
      THEN [ret |-> "INCOMPLETE", caches |-> c, slot |-> NULL,
            ha |-> Unwritten]
      ELSE [ret |-> "FOUND", caches |-> c, slot |-> NULL, ha |-> c[sel].ha]

\* arp_resolve up to the mutex_unlock of the path taken: the checks of the
\* interface, then lookup, allocation and copy under the lock.  ERROR and
\* FOUND return here; INCOMPLETE goes on to send the request.
ArpResolveLookup(th, pa, devEther, familyIp) ==
  /\ res[th].pc = "idle"
  /\ IF ~devEther \/ ~familyIp
     THEN /\ res' = [res EXCEPT ![th] = [pc |-> "idle", pa |-> 0,
                                         ret |-> "ERROR", ha |-> Unwritten]]
          /\ UNCHANGED <<caches, now, rep>>
     ELSE \E t \in IF arp_cache_select(caches, pa) = NULL
                    THEN GetTimeOfDay(now) ELSE {now} :
            LET r == arp_resolve_locked(caches, pa, t)
            IN  /\ caches' = r.caches
                /\ now' = IF r.slot # NULL THEN t ELSE now
                /\ rep' = IF r.slot # NULL
                          THEN RepMiss(RepEvict(rep, caches, r.slot), pa)
                          ELSE rep
                /\ res' = [res EXCEPT ![th] =
                            IF r.ret = "INCOMPLETE"
                            THEN [pc |-> "request", pa |-> pa,
                                  ret |-> "NONE", ha |-> r.ha]
                            ELSE [pc |-> "idle", pa |-> 0,
                                  ret |-> r.ret, ha |-> r.ha]]
  /\ wire' = NoFrame
  /\ UNCHANGED inp

\* arp_resolve that returns ERROR when its arp_request has returned -1
ArpResolveRequestChecked(th) ==
  /\ res[th].pc = "request"
  /\ wire' = arp_request(res[th].pa)
  /\ res' = [res EXCEPT ![th].pc = "idle", ![th].pa = 0,
                        ![th].ret = IF devret'.ret = -1
                                    THEN "ERROR" ELSE "INCOMPLETE"]
  /\ UNCHANGED <<caches, now, inp, rep>>

\* arp_resolve after the unlock on a miss or an INCOMPLETE entry: the
\* arp_request and the return of ARP_RESOLVE_INCOMPLETE
ArpResolveRequest(th) ==
  /\ res[th].pc = "request"
  /\ wire' = arp_request(res[th].pa)
  /\ res' = [res EXCEPT ![th].pc = "idle", ![th].pa = 0,
                        ![th].ret = "INCOMPLETE"]
  /\ UNCHANGED <<caches, now, inp, rep>>

\* mutex_unlock(&mutex) that leaves the mutex with its holder
ArpMutexUnlockSkipped(who) ==
  /\ mutex = {who}
  /\ mutex' = mutex

\* mutex_lock(&mutex) by thread `who`: the call returns once the mutex is
\* free.  The event thread is thread 0, the user threads are Threads.
ArpMutexLock(who) ==
  /\ mutex = {}
  /\ mutex' = {who}

\* mutex_unlock(&mutex) by the holder
ArpMutexUnlock(who) ==
  /\ mutex = {who}
  /\ mutex' = {}

\* the cache before the stack runs: the zeroed array, possibly with one
\* STATIC entry provisioned in its first slot
ProvisionedCaches ==
  {[i \in Slots |-> FreeEntry]} \cup
  {[i \in Slots |-> IF i = 1
                    THEN [state |-> ARP_CACHE_STATE_STATIC, pa |-> 1,
                          ha |-> 1, timestamp |-> 1]
                    ELSE FreeEntry]}

\* the resolver before any call, on the zeroed cache
ArpInit ==
  /\ caches = [i \in Slots |-> FreeEntry]
  /\ now = 1
  /\ inp = InpIdle
  /\ res = [th \in Threads |-> ResIdle]
  /\ rep = RepNone
  /\ wire = NoFrame
  /\ mutex = {}

(***************************************************************************)
(* The scheduler primitive (sched.c).  sched_sleep is entered with the     *)
(* caller's mutex held and waits on the condition variable, which releases *)
(* the mutex while the thread is parked and takes it again before the wait *)
(* returns; sched_wakeup and sched_interrupt are called with the mutex     *)
(* held.  Each step below is therefore one critical section.               *)
(***************************************************************************)
\* sched_ctx_init
sched_ctx_init == [interrupted |-> 0, wc |-> 0]

SlpOut == [pc |-> "out", ret |-> "NONE"]

\* sched_sleep without the test of the flag at its entry
SchedSleepEnterUntested(th) ==
  /\ slp[th].pc = "out"
  /\ ctx' = [ctx EXCEPT !.wc = ctx.wc + 1]
  /\ slp' = [slp EXCEPT ![th] = [pc |-> "parked", ret |-> "NONE"]]
  /\ UNCHANGED marked

\* sched_sleep from its entry to the wait: with the flag set it returns -1
\* (EINTR) at once, else it counts the caller in and parks it
SchedSleepEnter(th) ==
  /\ slp[th].pc = "out"
  /\ IF ctx.interrupted # 0
     THEN /\ slp' = [slp EXCEPT ![th] = [pc |-> "out", ret |-> "EINTR"]]
          /\ UNCHANGED ctx
     ELSE /\ ctx' = [ctx EXCEPT !.wc = ctx.wc + 1]
          /\ slp' = [slp EXCEPT ![th] = [pc |-> "parked", ret |-> "NONE"]]
  /\ UNCHANGED marked

\* pthread_cond_broadcast: every parked thread is released from the wait
\* with result 0 and will take the mutex again
cond_broadcast(s) ==
  [th \in Sleepers |->
     IF s[th].pc = "parked" THEN [pc |-> "woken", ret |-> "OK"] ELSE s[th]]

\* sched_wakeup
SchedWakeup ==
  /\ slp' = cond_broadcast(slp)
  /\ UNCHANGED <<ctx, marked>>

\* sched_interrupt
SchedInterrupt ==
  /\ ctx' = [ctx EXCEPT !.interrupted = 1]
  /\ slp' = cond_broadcast(slp)
  /\ marked' = {th \in Sleepers : slp[th].pc \in {"parked", "woken"}}

\* pthread_cond_timedwait reaching abstime (ETIMEDOUT), or a wait that wakes
\* spuriously (0)
SchedWaitEnds(th, r) ==
  /\ slp[th].pc = "parked"
  /\ slp' = [slp EXCEPT ![th] = [pc |-> "woken", ret |-> r]]
  /\ UNCHANGED <<ctx, marked>>

\* sched_sleep after the wait that never lowers the flag
sched_sleep_after_wait_keeps_flag(c, ret) ==
  LET c1 == [c EXCEPT !.wc = c.wc - 1]
  IN  IF c1.interrupted # 0
      THEN [ctx |-> c1, ret |-> "EINTR"]
      ELSE [ctx |-> c1, ret |-> ret]

sched_sleep_after_wait_lowers_flag(c, ret) ==
  LET c1 == [c EXCEPT !.wc = c.wc - 1]
  IN  IF c1.interrupted # 0
      THEN [ctx |-> [c1 EXCEPT !.interrupted = 0], ret |-> "EINTR"]
      ELSE [ctx |-> c1, ret |-> ret]

\* sched_sleep after the wait, for a wait that returned ret: the context it
\* leaves and what it returns
sched_sleep_after_wait(c, ret) ==
  LET c1 == [c EXCEPT !.wc = c.wc - 1]
  IN  IF c1.interrupted # 0
      THEN [ctx |-> IF c1.wc = 0 THEN [c1 EXCEPT !.interrupted = 0] ELSE c1,
            ret |-> "EINTR"]
      ELSE [ctx |-> c1, ret |-> ret]

\* sched_sleep from the return of the wait, mutex held again, to its return
SchedSleepReturn(th) ==
  /\ slp[th].pc = "woken"
  /\ LET r == sched_sleep_after_wait(ctx, slp[th].ret)
     IN  /\ ctx' = r.ctx
         /\ slp' = [slp EXCEPT ![th] = [pc |-> "out", ret |-> r.ret]]
  /\ marked' = marked \ {th}

SchedInit ==
  /\ ctx = sched_ctx_init
  /\ slp = [th \in Sleepers |-> SlpOut]
  /\ marked = {}

(***************************************************************************)
(* The event thread (intr_thread in sched.c) and the application thread    *)
(* that starts it with net_run and stops it with net_shutdown.  Every      *)
(* signal of sigmask is blocked in both threads (pthread_sigmask in        *)
(* intr_run, inherited by the thread it creates), so a signal sent to the  *)
(* event thread stays pending until its sigwait takes it.                  *)
(***************************************************************************)
\* the signals of sigmask: the four of intr_init and a device's IRQ, in the
\* order in which the kernel hands pending signals to sigwait (lowest
\* number first, the real-time IRQ signals above the standard ones)
Signals == <<"SIGHUP", "SIGUSR1", "SIGUSR2", "SIGALRM", "IRQ">>

SignalSet == {Signals[i] : i \in 1..Len(Signals)}

\* sigwait: the pending signal it returns
sigwait(pending) ==
  Signals[CHOOSE i \in 1..Len(Signals) :
            /\ Signals[i] \in pending
            /\ \A j \in 1..Len(Signals) : Signals[j] \in pending => i <= j]

EthrNone == [pc |-> "none", terminate |-> FALSE, sig |-> "NONE"]

\* intr_init: tid is the calling thread
IntrInit ==
  /\ mainpc = "init"
  /\ ethr = EthrNone
  /\ sigpend = {}
  /\ tid = "main"
  /\ timer = FALSE
  /\ opened = FALSE
  /\ inflight = FALSE

\* intr_run: pthread_sigmask, then pthread_create; a failure of either
\* makes net_run return -1
IntrRunCreate(maskOk, createOk) ==
  /\ mainpc = "init"
  /\ IF maskOk /\ createOk
     THEN /\ tid' = "intr"
          /\ ethr' = [ethr EXCEPT !.pc = "start"]
          /\ mainpc' = "barrier"
     ELSE /\ mainpc' = "failed"
          /\ UNCHANGED <<tid, ethr>>
  /\ UNCHANGED <<sigpend, timer, opened, inflight>>

\* intr_thread up to its pthread_barrier_wait
IntrThreadStart ==
  /\ ethr.pc = "start"
  /\ ethr' = [ethr EXCEPT !.pc = "barrier"]
  /\ UNCHANGED <<mainpc, sigpend, tid, timer, opened, inflight>>

\* the barrier of two: with both threads waiting, both go on; intr_run
\* returns 0 to net_run, intr_thread goes on to intr_timer_setup
IntrBarrier ==
  /\ mainpc = "barrier"
  /\ ethr.pc = "barrier"
  /\ mainpc' = "open"
  /\ ethr' = [ethr EXCEPT !.pc = "setup"]
  /\ UNCHANGED <<sigpend, tid, timer, opened, inflight>>

\* intr_thread calling intr_timer_setup: timer_create or timer_settime may
\* fail, and then the thread returns
IntrTimerSetup(ok) ==
  /\ ethr.pc = "setup"
  /\ IF ok
     THEN /\ timer' = TRUE
          /\ ethr' = [ethr EXCEPT !.pc = "test"]
     ELSE /\ ethr' = [ethr EXCEPT !.pc = "exited"]
          /\ UNCHANGED timer
  /\ UNCHANGED <<mainpc, sigpend, tid, opened, inflight>>

\* while (!terminate)
IntrLoopTest ==
  /\ ethr.pc = "test"
  /\ ethr' = [ethr EXCEPT !.pc = IF ethr.terminate THEN "exited" ELSE "wait"]
  /\ UNCHANGED <<mainpc, sigpend, tid, timer, opened, inflight>>

\* sigwait returning, and the switch on the signal: SIGHUP sets terminate,
\* any other signal enters its handler
IntrSigwait ==
  /\ ethr.pc = "wait"
  /\ sigpend # {}
  /\ LET sig == sigwait(sigpend)
     IN  /\ sigpend' = sigpend \ {sig}
         /\ ethr' = IF sig = "SIGHUP"
                    THEN [pc |-> "test", terminate |-> TRUE, sig |-> sig]
                    ELSE [pc |-> "handler", terminate |-> ethr.terminate,
                          sig |-> sig]
  /\ UNCHANGED <<mainpc, tid, timer, opened, inflight>>

\* net_softirq_handler, net_event_handler, net_timer_handler or the IRQ
\* handlers returning to the loop
IntrHandlerReturn ==
  /\ ethr.pc = "handler"
  /\ ethr' = [ethr EXCEPT !.pc = "test"]
  /\ UNCHANGED <<mainpc, sigpend, tid, timer, opened, inflight>>

\* intr_raise_irq (pthread_kill on tid) by a device, by net_input_handler,
\* by net_raise_event, and the expiry of the armed interval timer
IntrRaise(sig) ==
  /\ tid = "intr"
  /\ sig # "SIGHUP"
  /\ sig = "SIGALRM" => timer
  /\ sig = "IRQ" => opened
  /\ sigpend' = sigpend \cup {sig}
  /\ UNCHANGED <<mainpc, ethr, tid, timer, opened, inflight>>

\* net_run after intr_run returned 0: opens the devices and returns 0
NetRunOpen ==
  /\ mainpc = "open"
  /\ opened' = TRUE
  /\ mainpc' = "running"
  /\ UNCHANGED <<ethr, sigpend, tid, timer, inflight>>

\* net_shutdown called by the application thread: closes the devices, then
\* calls intr_shutdown
NetShutdownClose ==
  /\ mainpc \in {"init", "running"}
  /\ opened' = FALSE
  /\ mainpc' = "shutdown"
  /\ inflight' = (ethr.pc = "handler")
  /\ UNCHANGED <<ethr, sigpend, tid, timer>>

\* intr_shutdown: returns at once when tid is the caller, else sends SIGHUP
IntrShutdownKill ==
  /\ mainpc = "shutdown"
  /\ IF tid = "main"
     THEN /\ mainpc' = "down"
          /\ UNCHANGED sigpend
     ELSE /\ sigpend' = sigpend \cup {"SIGHUP"}
          /\ mainpc' = "join"
  /\ UNCHANGED <<ethr, tid, timer, opened, inflight>>

IntrShutdownReturnsAtOnce ==
  /\ mainpc = "join"
  /\ mainpc' = "down"
  /\ UNCHANGED <<ethr, sigpend, tid, timer, opened, inflight>>

\* intr_shutdown in pthread_join: returns when intr_thread has returned
IntrShutdownJoin ==
  /\ mainpc = "join"
  /\ ethr.pc = "exited"
  /\ mainpc' = "down"
  /\ UNCHANGED <<ethr, sigpend, tid, timer, opened, inflight>>

\* the steps of intr_thread
IntrThreadNext ==
  \/ IntrThreadStart
  \/ \E ok \in BOOLEAN : IntrTimerSetup(ok)
  \/ IntrLoopTest
  \/ IntrSigwait
  \/ IntrHandlerReturn

(***************************************************************************)
(* Ingress (net.c): net_input_handler queues a frame on the input queue of *)
(* its protocol and raises the softirq; net_softirq_handler, on the event  *)
(* thread, walks the protocols list and empties each queue into the        *)
(* protocol's handler.  A frame is its place in the order of the calls of  *)
(* net_input_handler and its type.                                         *)
(***************************************************************************)
\* protocol types a frame may carry; the stack registers the first two
FrameTypes == {1, 2, 3}

ProtocolTypes == {1, 2}

\* queue_push (util.c): the entry goes to the tail
queue_push(q, e) == Append(q, e)

\* a pop that takes the entry pushed last
queue_pop_newest(q) ==
  [entry |-> q[Len(q)], queue |-> SubSeq(q, 1, Len(q) - 1)]

\* queue_pop (util.c): the entry at the head, and the queue without it
queue_pop(q) == [entry |-> Head(q), queue |-> Tail(q)]

\* the walk of the protocols list in net_protocol_register and in
\* net_input_handler: the place of the first protocol of this type, or NULL
RECURSIVE ProtoScan(_, _, _)
ProtoScan(ps, type, i) ==
  IF i > Len(ps) THEN NULL
  ELSE IF ps[i] = type THEN i
  ELSE ProtoScan(ps, type, i + 1)

net_protocol_lookup_head(ps, type) == IF ps = <<>> THEN NULL ELSE 1

net_protocol_lookup(ps, type) == ProtoScan(ps, type, 1)

NetInit ==
  /\ protocols = <<>>
  /\ queues = [t \in ProtocolTypes |-> <<>>]
  /\ raised = FALSE
  /\ drain = NULL
  /\ delivered = [t \in ProtocolTypes |-> <<>>]
  /\ nframes = 0
  /\ netret = 0
  /\ registered = <<>>

\* net_protocol_register, called before net_run: a type already in the list
\* or a failed allocation returns -1, else the protocol becomes the head
NetProtocolRegister(type, allocOk) ==
  /\ nframes = 0
  /\ IF net_protocol_lookup(protocols, type) = NULL /\ allocOk
     THEN /\ protocols' = <<type>> \o protocols
          /\ registered' = Append(registered, type)
     ELSE UNCHANGED <<protocols, registered>>
  /\ UNCHANGED <<queues, raised, drain, delivered, nframes, netret>>

\* net_input_handler that raises the softirq only for the first entry of a
\* queue
net_input_handler_raises_on_empty(ps, qs, type, entry, allocOk, pushOk) ==
  LET p == net_protocol_lookup(ps, type)
  IN  IF p = NULL THEN [ret |-> 0, queues |-> qs, raise |-> FALSE]
      ELSE IF ~allocOk \/ ~pushOk
      THEN [ret |-> -1, queues |-> qs, raise |-> FALSE]
      ELSE [ret |-> 0, queues |-> [qs EXCEPT ![ps[p]] = queue_push(@, entry)],
            raise |-> (\A t \in ProtocolTypes : qs[t] = <<>>)]

\* net_input_handler that takes a failed allocation or push for a success
net_input_handler_hides_failure(ps, qs, type, entry, allocOk, pushOk) ==
  LET p == net_protocol_lookup(ps, type)
  IN  IF p = NULL THEN [ret |-> 0, queues |-> qs, raise |-> FALSE]
      ELSE IF ~allocOk \/ ~pushOk
      THEN [ret |-> 0, queues |-> qs, raise |-> FALSE]
      ELSE [ret |-> 0, queues |-> [qs EXCEPT ![ps[p]] = queue_push(@, entry)],
            raise |-> TRUE]

\* net_input_handler on the list ps and the queues qs: the return value, the
\* queues after the call and whether intr_raise_irq was called.  A frame of
\* a registered type is copied into a new entry, pushed on the queue of its
\* protocol, and the softirq is raised; a failed allocation or push returns
\* -1; an unregistered type returns 0
net_input_handler(ps, qs, type, entry, allocOk, pushOk) ==
  LET p == net_protocol_lookup(ps, type)
  IN  IF p = NULL THEN [ret |-> 0, queues |-> qs, raise |-> FALSE]
      ELSE IF ~allocOk \/ ~pushOk
      THEN [ret |-> -1, queues |-> qs, raise |-> FALSE]
      ELSE [ret |-> 0, queues |-> [qs EXCEPT ![ps[p]] = queue_push(@, entry)],
            raise |-> TRUE]

\* a call of net_input_handler with the next frame, received on device dev
NetInputHandler(type, dev, allocOk, pushOk) ==
  /\ nframes < MaxFrames
  /\ nframes' = nframes + 1
  /\ LET entry == [id |-> nframes + 1, type |-> type, dev |-> dev]
         r == net_input_handler(protocols, queues, type, entry, allocOk,
                                pushOk)
     IN  /\ queues' = r.queues
         /\ raised' = (raised \/ r.raise)
         /\ netret' = r.ret
  /\ UNCHANGED <<protocols, drain, delivered, registered>>

\* the event thread taking the softirq signal: net_softirq_handler starts at
\* the head of the protocols list
NetSoftirqEnter ==
  /\ raised
  /\ drain = NULL
  /\ raised' = FALSE
  /\ drain' = 1
  /\ UNCHANGED <<protocols, queues, delivered, nframes, netret, registered>>

\* net_softirq_handler, one turn of its loops: an entry popped from the
\* queue of the protocol it is at goes to that protocol's handler; an empty
\* queue moves it to the next protocol; the end of the list returns
NetSoftirqStep ==
  /\ drain # NULL
  /\ IF drain > Len(protocols)
     THEN /\ drain' = NULL
          /\ UNCHANGED <<queues, delivered>>
     ELSE LET t == protocols[drain]
          IN  IF queues[t] = <<>>
              THEN /\ drain' = drain + 1
                   /\ UNCHANGED <<queues, delivered>>
              ELSE LET r == queue_pop(queues[t])
                   IN  /\ queues' = [queues EXCEPT ![t] = r.queue]
                       /\ delivered' = [delivered EXCEPT
                                          ![t] = Append(@, r.entry)]
                       /\ UNCHANGED drain
  /\ UNCHANGED <<protocols, raised, nframes, netret, registered>>

(***************************************************************************)
(* Devices and their interfaces (net.c).  A device is its UP flag, its     *)
(* mtu, its ifaces list (head first) and tx, the number of frames its      *)
(* driver's transmit was called with.  Interfaces are added before         *)
(* net_run; every call adds an interface object of its own.                *)
(***************************************************************************)
\* the mtu of the devices
DevMtu == 1

\* the frames a driver takes
MaxTx == 1

Devs == {1, 2}

\* NET_IFACE_FAMILY_IP, NET_IFACE_FAMILY_IPV6
Families == {1, 2}

\* the payload lengths handed to net_device_output
Lens == 0..(DevMtu + 1)

\* no interface: the NULL net_device_get_iface returns
NoIface == [id |-> 0, family |-> 0]

NoCall == [op |-> "none", dev |-> 0, arg |-> 0, ret |-> 0]

DevInit ==
  /\ devices = [d \in Devs |->
                  [up |-> FALSE, mtu |-> DevMtu, ifaces |-> <<>>, tx |-> 0]]
  /\ devret = NoCall
  /\ out = [pc |-> "idle", who |-> "none", dev |-> 0, len |-> 0]

\* net_device_open: an UP device or a failing driver open returns -1
NetDeviceOpen(d, openOk) ==
  IF devices[d].up \/ ~openOk
  THEN /\ devret' = [op |-> "open", dev |-> d, arg |-> 0, ret |-> -1]
       /\ UNCHANGED devices
  ELSE /\ devices' = [devices EXCEPT ![d].up = TRUE]
       /\ devret' = [op |-> "open", dev |-> d, arg |-> 0, ret |-> 0]

\* net_device_close: a device that is not UP or a failing driver close
\* returns -1
NetDeviceClose(d, closeOk) ==
  IF ~devices[d].up \/ ~closeOk
  THEN /\ devret' = [op |-> "close", dev |-> d, arg |-> 0, ret |-> -1]
       /\ UNCHANGED devices
  ELSE /\ devices' = [devices EXCEPT ![d].up = FALSE]
       /\ devret' = [op |-> "close", dev |-> d, arg |-> 0, ret |-> 0]

\* net_device_add_iface without the walk of the list
net_device_add_iface_unchecked(ifaces, iface) ==
  [ret |-> 0, ifaces |-> <<iface>> \o ifaces]

\* net_device_add_iface: the return value and the list after the call
net_device_add_iface(ifaces, iface) ==
  IF \E k \in 1..Len(ifaces) : ifaces[k].family = iface.family
  THEN [ret |-> -1, ifaces |-> ifaces]
  ELSE [ret |-> 0, ifaces |-> <<iface>> \o ifaces]

\* the loop of net_device_get_iface from place k of the list
RECURSIVE IfaceScan(_, _, _)
IfaceScan(ifaces, family, k) ==
  IF k > Len(ifaces) THEN NoIface
  ELSE IF ifaces[k].family = family THEN ifaces[k]
  ELSE IfaceScan(ifaces, family, k + 1)

net_device_get_iface(ifaces, family) == IfaceScan(ifaces, family, 1)

\* the interfaces added so far, over all devices
RECURSIVE IfaceCount(_)
IfaceCount(ds) ==
  IF ds = {} THEN 0
  ELSE LET d == CHOOSE x \in ds : TRUE
       IN  Len(devices[d].ifaces) + IfaceCount(ds \ {d})

NetDeviceAddIface(d, family) ==
  LET iface == [id |-> IfaceCount(Devs) + 1, family |-> family]
      r == net_device_add_iface(devices[d].ifaces, iface)
  IN  /\ devices' = [devices EXCEPT ![d].ifaces = r.ifaces]
      /\ devret' = [op |-> "add_iface", dev |-> d, arg |-> family,
                    ret |-> r.ret]

NetDeviceGetIface(d, family) ==
  /\ devret' = [op |-> "get_iface", dev |-> d, arg |-> family,
                ret |-> net_device_get_iface(devices[d].ifaces, family)]
  /\ UNCHANGED devices

\* net_device_output without the test of the length
net_device_output_any_length(dv, len, txOk) ==
  IF ~dv.up
  THEN [ret |-> -1, transmit |-> FALSE]
  ELSE [ret |-> IF txOk THEN 0 ELSE -1, transmit |-> TRUE]

\* net_device_output on device dv: the return value, and whether the
\* driver's transmit was called; txOk: transmit does not return -1
net_device_output(dv, len, txOk) ==
  IF ~dv.up
  THEN [ret |-> -1, transmit |-> FALSE]
  ELSE IF len > dv.mtu
  THEN [ret |-> -1, transmit |-> FALSE]
  ELSE [ret |-> IF txOk THEN 0 ELSE -1, transmit |-> TRUE]

NetDeviceOutput(d, len, txOk) ==
  /\ devices[d].tx < MaxTx
  /\ LET r == net_device_output(devices[d], len, txOk)
     IN  /\ devices' = [devices EXCEPT
                          ![d].tx = IF r.transmit THEN @ + 1 ELSE @]
         /\ devret' = [op |-> "output", dev |-> d, arg |-> len,
                       ret |-> r.ret]

\* net_device_output by caller `who` up to the call of the driver: the
\* tests of the UP flag and of the length; a failed test returns -1
NetDeviceOutputCheck(who, d, len) ==
  /\ out.pc = "idle"
  /\ IF net_device_output(devices[d], len, TRUE).transmit
     THEN /\ out' = [pc |-> "transmit", who |-> who, dev |-> d, len |-> len]
          /\ UNCHANGED devret
     ELSE /\ devret' = [op |-> "output", dev |-> d, arg |-> len, ret |-> -1]
          /\ UNCHANGED out
  /\ UNCHANGED devices

\* net_device_output from the call of the driver's transmit to the return
NetDeviceOutputTransmit(txOk) ==
  /\ out.pc = "transmit"
  /\ devices[out.dev].tx < MaxTx
  /\ devices' = [devices EXCEPT ![out.dev].tx = @ + 1]
  /\ devret' = [op |-> "output", dev |-> out.dev, arg |-> out.len,
                ret |-> IF txOk THEN 0 ELSE -1]
  /\ out' = [pc |-> "idle", who |-> "none", dev |-> 0, len |-> 0]

(***************************************************************************)
(* Event subscriptions (net.c).  A subscription is its handler, told apart *)
(* by id, the number of the net_event_subscribe call that made it, and the *)
(* argument it was subscribed with.                                        *)
(***************************************************************************)
\* the subscriptions made
MaxEvents == 3

EventArgs == {1, 2, 3}

EventInit ==
  /\ events = <<>>
  /\ evpending = FALSE
  /\ evcalls = <<>>

\* net_event_subscribe: a failed allocation returns -1, else the
\* subscription becomes the head of the list
NetEventSubscribe(arg, allocOk) ==
  /\ Len(events) < MaxEvents
  /\ IF allocOk
     THEN events' = <<[id |-> Len(events) + 1, arg |-> arg]>> \o events
     ELSE UNCHANGED events
  /\ UNCHANGED <<evpending, evcalls>>

\* net_raise_event
NetRaiseEvent ==
  /\ evpending' = TRUE
  /\ UNCHANGED <<events, evcalls>>

\* the loop of net_event_handler from place k of the list: the calls
\* event->handler(event->arg) it makes, in order
RECURSIVE net_event_handler(_, _)
net_event_handler(evs, k) ==
  IF k > Len(evs) THEN <<>>
  ELSE <<evs[k]>> \o net_event_handler(evs, k + 1)

\* the event thread taking the event signal and running net_event_handler
NetEventHandler ==
  /\ evpending
  /\ evpending' = FALSE
  /\ evcalls' = net_event_handler(events, 1)
  /\ UNCHANGED events

(***************************************************************************)
(* Periodic timers (net.c).  A timer is its handler, told apart by id, its *)
(* interval and last, the time of its registration or of its last firing.  *)
(* Timers are registered before the first tick.  net_timer_handler reads   *)
(* the clock once per timer, and the clock may move between two reads.     *)
(***************************************************************************)
\* the timers registered
MaxTimers == 2

\* the last value of the clock
MaxClock == 4

Intervals == {1, 2}

TickIdle == [run |-> FALSE, pos |-> NULL, calls |-> <<>>]

TimerInit ==
  /\ timers = <<>>
  /\ tclock = 0
  /\ tick = TickIdle

\* time passes
ClockAdvance ==
  /\ tclock < MaxClock
  /\ tclock' = tclock + 1
  /\ UNCHANGED <<timers, tick>>

\* net_timer_register: a failed allocation returns -1, else the timer, with
\* last set from gettimeofday, becomes the head of the list
NetTimerRegister(interval, allocOk) ==
  /\ ~tick.run
  /\ Len(timers) < MaxTimers
  /\ IF allocOk
     THEN timers' = <<[id |-> Len(timers) + 1, interval |-> interval,
                       last |-> tclock]>> \o timers
     ELSE UNCHANGED timers
  /\ UNCHANGED <<tclock, tick>>

\* the body of the loop that fires a timer and moves last on by one
\* interval instead of setting it from the clock
net_timer_visit_replays(tm, t) ==
  LET diff == t - tm.last
  IN  IF tm.interval < diff
      THEN [fire |-> TRUE, diff |-> diff,
            timer |-> [tm EXCEPT !.last = tm.last + tm.interval]]
      ELSE [fire |-> FALSE, diff |-> diff, timer |-> tm]

\* the body of the loop of net_timer_handler for timer tm with t read from
\* gettimeofday: timersub, timercmp(&timer->interval, &diff, <), and for a
\* timer that fires the call of its handler and last = now
net_timer_visit(tm, t) ==
  LET diff == t - tm.last
  IN  IF tm.interval < diff
      THEN [fire |-> TRUE, diff |-> diff, timer |-> [tm EXCEPT !.last = t]]
      ELSE [fire |-> FALSE, diff |-> diff, timer |-> tm]

\* the event thread taking SIGALRM: net_timer_handler starts at the head of
\* the timers list
NetTimerEnter ==
  /\ tick.pos = NULL
  /\ tick' = [run |-> TRUE, pos |-> 1, calls |-> <<>>]
  /\ UNCHANGED <<timers, tclock>>

\* net_timer_handler, one turn of its loop, or its return at the end of the
\* list
NetTimerStep ==
  /\ tick.pos # NULL
  /\ IF tick.pos > Len(timers)
     THEN /\ tick' = [tick EXCEPT !.pos = NULL]
          /\ UNCHANGED timers
     ELSE LET r == net_timer_visit(timers[tick.pos], tclock)
          IN  /\ timers' = [timers EXCEPT ![tick.pos] = r.timer]
              /\ tick' = [tick EXCEPT
                            !.pos = @ + 1,
                            !.calls = IF r.fire
                                      THEN Append(@, [id |-> r.timer.id,
                                                      diff |-> r.diff])
                                      ELSE @]
  /\ UNCHANGED tclock

(***************************************************************************)
(* IRQ registration (intr_request_irq).  An entry of the irqs list is its  *)
(* IRQ number and its flags.                                               *)
(***************************************************************************)
INTR_IRQ_SHARED == 1

\* the entries registered
MaxIrqs == 3

IrqNumbers == {1, 2}

\* the flags words passed: bit 0 is INTR_IRQ_SHARED
IrqFlags == 0..3

\* a ^ b on flags words
RECURSIVE BitXor(_, _)
BitXor(a, b) ==
  IF a = 0 /\ b = 0 THEN 0
  ELSE (IF a % 2 = b % 2 THEN 0 ELSE 1) + 2 * BitXor(a \div 2, b \div 2)

IrqInit ==
  /\ irqs = <<>>
  /\ sigmask = {}
  /\ irqret = [irq |-> 0, flags |-> 0, ret |-> 0]

\* intr_request_irq that tests the flags of the new handler only
intr_request_irq_new_flags_only(list, irq, flags, allocOk) ==
  IF \E k \in 1..Len(list) :
       /\ list[k].irq = irq
       /\ BitXor(flags, INTR_IRQ_SHARED) # 0
  THEN [ret |-> -1, irqs |-> list, added |-> FALSE]
  ELSE IF ~allocOk
  THEN [ret |-> -1, irqs |-> list, added |-> FALSE]
  ELSE [ret |-> 0, irqs |-> <<[irq |-> irq, flags |-> flags]>> \o list,
        added |-> TRUE]

\* intr_request_irq on the list: the return value, the list after the call
\* and whether the number was added to sigmask
intr_request_irq(list, irq, flags, allocOk) ==
  IF \E k \in 1..Len(list) :
       /\ list[k].irq = irq
       /\ (BitXor(list[k].flags, INTR_IRQ_SHARED) # 0
             \/ BitXor(flags, INTR_IRQ_SHARED) # 0)
  THEN [ret |-> -1, irqs |-> list, added |-> FALSE]
  ELSE IF ~allocOk
  THEN [ret |-> -1, irqs |-> list, added |-> FALSE]
  ELSE [ret |-> 0, irqs |-> <<[irq |-> irq, flags |-> flags]>> \o list,
        added |-> TRUE]

IntrRequestIrq(irq, flags, allocOk) ==
  /\ Len(irqs) < MaxIrqs
  /\ LET r == intr_request_irq(irqs, irq, flags, allocOk)
     IN  /\ irqs' = r.irqs
         /\ sigmask' = IF r.added THEN sigmask \cup {irq} ELSE sigmask
         /\ irqret' = [irq |-> irq, flags |-> flags, ret |-> r.ret]

\* every part of the stack but the resolver, before any call
StackInit ==
  /\ SchedInit
  /\ IntrInit
  /\ NetInit
  /\ DevInit
  /\ EventInit
  /\ TimerInit
  /\ IrqInit

(***************************************************************************)
(* The specification of the ARP resolver: arp_input on the event thread    *)
(* against arp_resolve on a user thread.                                   *)
(***************************************************************************)
Init ==
  /\ caches \in ProvisionedCaches
  /\ now = 1
  /\ inp = InpIdle
  /\ res = [th \in Threads |-> ResIdle]
  /\ rep = RepNone
  /\ wire = NoFrame
  /\ mutex = {}
  /\ StackInit

Next ==
  \/ \E m \in Msgs : ArpInputUpdate(m) /\ UNCHANGED not_arp
  \/ \E hasIface \in BOOLEAN : ArpInputInsert(hasIface) /\ UNCHANGED not_arp
  \/ ArpInputReply /\ UNCHANGED not_arp
  \/ \E th \in Threads, pa \in Addrs :
       ArpResolveLookup(th, pa, TRUE, TRUE) /\ UNCHANGED not_arp
  \* a call on an unsupported interface returns before it reads pa
  \/ \E th \in Threads, devEther \in BOOLEAN, familyIp \in BOOLEAN :
       /\ ~devEther \/ ~familyIp
       /\ ArpResolveLookup(th, OurIp, devEther, familyIp)
       /\ UNCHANGED not_arp
  \/ \E th \in Threads : ArpResolveRequest(th) /\ UNCHANGED not_arp

Spec == Init /\ [][Next]_vars

\* the address whose history is followed: another host's
Followed == {a \in Addrs : a # OurIp /\ a + 1 = OurIp}

\* the resolver started on the zeroed cache, with the history of one
\* address followed
InitReply ==
  /\ caches = [i \in Slots |-> FreeEntry]
  /\ now = 1
  /\ inp = InpIdle
  /\ res = [th \in Threads |-> ResIdle]
  /\ rep \in {RepFollow(a) : a \in Followed}
  /\ wire = NoFrame
  /\ mutex = {}
  /\ StackInit

\* the resolver fed with well-formed replies only, on an Ethernet device
\* with an IP interface
NextReply ==
  \/ \E m \in {v \in ValidMsgs : v.op = ARP_OP_REPLY} :
       ArpInputUpdate(m) /\ UNCHANGED not_arp
  \/ ArpInputInsert(TRUE) /\ UNCHANGED not_arp
  \/ \E th \in Threads, pa \in Addrs :
       ArpResolveLookup(th, pa, TRUE, TRUE) /\ UNCHANGED not_arp
  \/ \E th \in Threads : ArpResolveRequest(th) /\ UNCHANGED not_arp

SpecReply == InitReply /\ [][NextReply]_vars

(***************************************************************************)
(* The specification of arp_resolve on its own: every kind of call, on a   *)
(* cache with or without the provisioned entry, while the replies to its   *)
(* requests come in.                                                       *)
(***************************************************************************)
InitResolve == Init

NextResolve ==
  \/ \E m \in {v \in ValidMsgs : v.op = ARP_OP_REPLY /\ v.tpa = OurIp} :
       ArpInputUpdate(m) /\ UNCHANGED not_arp
  \/ ArpInputInsert(TRUE) /\ UNCHANGED not_arp
  \/ \E th \in Threads, pa \in Addrs :
       ArpResolveLookup(th, pa, TRUE, TRUE) /\ UNCHANGED not_arp
  \* a call on an unsupported interface returns before it reads pa
  \/ \E th \in Threads, devEther \in BOOLEAN, familyIp \in BOOLEAN :
       /\ ~devEther \/ ~familyIp
       /\ ArpResolveLookup(th, OurIp, devEther, familyIp)
       /\ UNCHANGED not_arp
  \/ \E th \in Threads : ArpResolveRequest(th) /\ UNCHANGED not_arp

SpecResolve == InitResolve /\ [][NextResolve]_vars

(***************************************************************************)
(* The specification of arp_input on its own: every message, on a device   *)
(* with or without an IP interface.                                        *)
(***************************************************************************)
InitInput == Init

NextInput ==
  \/ \E m \in Msgs : ArpInputUpdate(m) /\ UNCHANGED not_arp
  \/ \E hasIface \in BOOLEAN : ArpInputInsert(hasIface) /\ UNCHANGED not_arp
  \/ ArpInputReply /\ UNCHANGED not_arp

SpecInput == InitInput /\ [][NextInput]_vars

(***************************************************************************)
(* The specification of what ARP turns down: arp_input with every message  *)
(* next to the calls of arp_resolve on an interface it does not support.   *)
(***************************************************************************)
NextDrop ==
  \/ \E m \in Msgs : ArpInputUpdate(m) /\ UNCHANGED not_arp
  \/ \E hasIface \in BOOLEAN : ArpInputInsert(hasIface) /\ UNCHANGED not_arp
  \/ ArpInputReply /\ UNCHANGED not_arp
  \/ \E th \in Threads, devEther \in BOOLEAN, familyIp \in BOOLEAN :
       /\ ~devEther \/ ~familyIp
       /\ ArpResolveLookup(th, OurIp, devEther, familyIp)
       /\ UNCHANGED not_arp

SpecDrop == Init /\ [][NextDrop]_vars

(***************************************************************************)
(* The specification of the scheduler primitive.                           *)
(***************************************************************************)
InitSched == ArpInit /\ StackInit

NextSched ==
  \/ \E th \in Sleepers : SchedSleepEnter(th) /\ UNCHANGED not_sched
  \/ SchedWakeup /\ UNCHANGED not_sched
  \/ SchedInterrupt /\ UNCHANGED not_sched
  \/ \E th \in Sleepers, r \in {"OK", "ETIMEDOUT"} :
       SchedWaitEnds(th, r) /\ UNCHANGED not_sched
  \/ \E th \in Sleepers : SchedSleepReturn(th) /\ UNCHANGED not_sched

SpecSched == InitSched /\ [][NextSched]_vars

(***************************************************************************)
(* The specification of start-up and shutdown.  The event thread is        *)
(* scheduled (weak fairness of its steps: a handler returns, sigwait       *)
(* returns when a signal is pending), and so is the thread in net_shutdown.*)
(***************************************************************************)
InitIntr == ArpInit /\ StackInit

NextIntr ==
  \/ \E maskOk \in BOOLEAN, createOk \in BOOLEAN :
       IntrRunCreate(maskOk, createOk) /\ UNCHANGED not_intr
  \/ IntrThreadStart /\ UNCHANGED not_intr
  \/ IntrBarrier /\ UNCHANGED not_intr
  \/ \E ok \in BOOLEAN : IntrTimerSetup(ok) /\ UNCHANGED not_intr
  \/ IntrLoopTest /\ UNCHANGED not_intr
  \/ IntrSigwait /\ UNCHANGED not_intr
  \/ IntrHandlerReturn /\ UNCHANGED not_intr
  \/ \E sig \in SignalSet : IntrRaise(sig) /\ UNCHANGED not_intr
  \/ NetRunOpen /\ UNCHANGED not_intr
  \/ NetShutdownClose /\ UNCHANGED not_intr
  \/ IntrShutdownKill /\ UNCHANGED not_intr
  \/ IntrShutdownJoin /\ UNCHANGED not_intr

SpecIntr ==
  /\ InitIntr
  /\ [][NextIntr]_vars
  /\ WF_vars(IntrThreadNext /\ UNCHANGED not_intr)
  /\ WF_vars(IntrBarrier /\ UNCHANGED not_intr)
  /\ WF_vars(IntrShutdownKill /\ UNCHANGED not_intr)
  /\ WF_vars(IntrShutdownJoin /\ UNCHANGED not_intr)

(***************************************************************************)
(* The specification of ingress.                                           *)
(***************************************************************************)
InitNet == ArpInit /\ StackInit

NextNet ==
  \/ \E type \in ProtocolTypes, allocOk \in BOOLEAN :
       NetProtocolRegister(type, allocOk) /\ UNCHANGED not_net
  \/ \E type \in FrameTypes, dev \in Devs, allocOk \in BOOLEAN,
        pushOk \in BOOLEAN :
       NetInputHandler(type, dev, allocOk, pushOk) /\ UNCHANGED not_net
  \/ NetSoftirqEnter /\ UNCHANGED not_net
  \/ NetSoftirqStep /\ UNCHANGED not_net

SpecNet == InitNet /\ [][NextNet]_vars

(***************************************************************************)
(* Ingress with the event thread scheduled: while net_shutdown is not      *)
(* called, sigwait returns the pending softirq signal and the handler it   *)
(* entered runs on, so both steps are weakly fair.  The frames come from   *)
(* one device.                                                             *)
(***************************************************************************)
NextDrain ==
  \/ \E type \in ProtocolTypes :
       NetProtocolRegister(type, TRUE) /\ UNCHANGED not_net
  \/ \E type \in FrameTypes, allocOk \in BOOLEAN :
       NetInputHandler(type, 1, allocOk, TRUE) /\ UNCHANGED not_net
  \/ NetSoftirqEnter /\ UNCHANGED not_net
  \/ NetSoftirqStep /\ UNCHANGED not_net

SpecDrain ==
  /\ InitNet
  /\ [][NextDrain]_vars
  /\ WF_vars(NetSoftirqEnter /\ UNCHANGED not_net)
  /\ WF_vars(NetSoftirqStep /\ UNCHANGED not_net)

(***************************************************************************)
(* The specification of net_input_handler on its own: protocols are        *)
(* registered and frames arrive while the event thread is not scheduled.   *)
(***************************************************************************)
InitIngress == InitNet

NextIngress ==
  \/ \E type \in ProtocolTypes, allocOk \in BOOLEAN :
       NetProtocolRegister(type, allocOk) /\ UNCHANGED not_net
  \/ \E type \in FrameTypes, dev \in Devs, allocOk \in BOOLEAN,
        pushOk \in BOOLEAN :
       NetInputHandler(type, dev, allocOk, pushOk) /\ UNCHANGED not_net

SpecIngress == InitIngress /\ [][NextIngress]_vars

(***************************************************************************)
(* The specification of the devices: interfaces are added, the devices     *)
(* are opened and closed, and frames are sent.                             *)
(***************************************************************************)
InitDev == ArpInit /\ StackInit

NextDev ==
  \/ \E d \in Devs, openOk \in BOOLEAN :
       NetDeviceOpen(d, openOk) /\ UNCHANGED not_dev
  \/ \E d \in Devs, closeOk \in BOOLEAN :
       NetDeviceClose(d, closeOk) /\ UNCHANGED not_dev
  \/ \E d \in Devs, family \in Families :
       NetDeviceAddIface(d, family) /\ UNCHANGED not_dev
  \/ \E d \in Devs, family \in Families :
       NetDeviceGetIface(d, family) /\ UNCHANGED not_dev
  \/ \E d \in Devs, len \in Lens, txOk \in BOOLEAN :
       NetDeviceOutput(d, len, txOk) /\ UNCHANGED not_dev

SpecDev == InitDev /\ [][NextDev]_vars

(***************************************************************************)
(* The specification of ARP with its mutex and its device.  mutex_lock is  *)
(* a step of its own, taken where the code is about to call it; the steps  *)
(* that work on the cache are taken by the holder and end with the         *)
(* mutex_unlock of their path; arp_reply and arp_request hand their frame  *)
(* to net_device_output on device 1, which is down until it is opened, may *)
(* have an mtu below the frame's length, and whose driver may fail.  One   *)
(* neighbour, address 2, sends the requests and replies; the user thread   *)
(* resolves that address and address 1.                                    *)
(***************************************************************************)
NextLock ==
  \* arp_input at line 278, or at line 292 with the interface found
  \/ /\ \/ inp.pc = "idle"
        \/ inp.pc = "iface" /\ inp.marge = 0 /\ inp.msg.tpa = OurIp
     /\ ArpMutexLock(0)
     /\ UNCHANGED <<arp_vars, sched_vars, intr_vars, net_vars, dev_vars,
                    event_vars, timer_vars, irq_vars, out>>
  \* arp_resolve at line 320
  \/ \E th \in Threads :
       /\ res[th].pc = "idle"
       /\ ArpMutexLock(th)
       /\ UNCHANGED <<arp_vars, sched_vars, intr_vars, net_vars, dev_vars,
                      event_vars, timer_vars, irq_vars, out>>
  \/ \E m \in {v \in ValidMsgs : v.tpa = OurIp /\ v.spa = 2 /\ v.sha = 1} :
       /\ ArpMutexUnlock(0)
       /\ ArpInputUpdate(m)
       /\ UNCHANGED <<sched_vars, intr_vars, net_vars, dev_vars,
                      event_vars, timer_vars, irq_vars, out>>
  \/ /\ ArpMutexUnlock(0)
     /\ ArpInputInsert(TRUE)
     /\ UNCHANGED <<sched_vars, intr_vars, net_vars, dev_vars,
                    event_vars, timer_vars, irq_vars, out>>
  \* the paths of arp_input from line 286 that do not insert
  \/ \E hasIface \in BOOLEAN :
       /\ mutex # {0}
       /\ ~hasIface \/ inp.marge # 0
       /\ ArpInputInsert(hasIface)
       /\ UNCHANGED <<sched_vars, intr_vars, net_vars, dev_vars,
                      event_vars, timer_vars, irq_vars, mutex, out>>
  \/ \E len \in {DevMtu, DevMtu + 1}, txOk \in BOOLEAN :
       /\ NetDeviceOutput(1, len, txOk)
       /\ ArpInputReply
       /\ UNCHANGED <<sched_vars, intr_vars, net_vars,
                      event_vars, timer_vars, irq_vars, mutex, out>>
  \/ \E th \in Threads, pa \in {1, 2} :
       /\ ArpMutexUnlock(th)
       /\ ArpResolveLookup(th, pa, TRUE, TRUE)
       /\ UNCHANGED <<sched_vars, intr_vars, net_vars, dev_vars,
                      event_vars, timer_vars, irq_vars, out>>
  \* a call on an unsupported interface returns before line 320
  \/ \E th \in Threads, devEther \in BOOLEAN, familyIp \in BOOLEAN :
       /\ mutex # {th}
       /\ ~devEther \/ ~familyIp
       /\ ArpResolveLookup(th, OurIp, devEther, familyIp)
       /\ UNCHANGED <<sched_vars, intr_vars, net_vars, dev_vars,
                      event_vars, timer_vars, irq_vars, mutex, out>>
  \/ \E th \in Threads, len \in {DevMtu, DevMtu + 1}, txOk \in BOOLEAN :
       /\ NetDeviceOutput(1, len, txOk)
       /\ ArpResolveRequest(th)
       /\ UNCHANGED <<sched_vars, intr_vars, net_vars,
                      event_vars, timer_vars, irq_vars, mutex, out>>
  \/ ~devices[1].up /\ NetDeviceOpen(1, TRUE) /\ UNCHANGED not_dev

SpecLock == InitDev /\ [][NextLock]_vars

(***************************************************************************)
(* The specification of net_device_output against net_shutdown: the        *)
(* application thread runs net_run and net_shutdown on the one registered  *)
(* device, the event thread runs its loop, and net_device_output is called *)
(* by a user thread or by a handler on the event thread, which does not    *)
(* return to the loop before its call has returned.                        *)
(***************************************************************************)
NextShutdown ==
  \/ \E maskOk \in BOOLEAN, createOk \in BOOLEAN :
       IntrRunCreate(maskOk, createOk) /\ UNCHANGED not_intr
  \/ IntrThreadStart /\ UNCHANGED not_intr
  \/ IntrBarrier /\ UNCHANGED not_intr
  \/ \E ok \in BOOLEAN : IntrTimerSetup(ok) /\ UNCHANGED not_intr
  \/ IntrLoopTest /\ UNCHANGED not_intr
  \/ IntrSigwait /\ UNCHANGED not_intr
  \/ out.who # "handler" /\ IntrHandlerReturn /\ UNCHANGED not_intr
  \/ \E sig \in SignalSet : IntrRaise(sig) /\ UNCHANGED not_intr
  \/ /\ NetRunOpen
     /\ NetDeviceOpen(1, TRUE)
     /\ UNCHANGED <<arp_vars, sched_vars, net_vars, event_vars, timer_vars,
                    irq_vars, mutex, out>>
  \/ \E closeOk \in BOOLEAN :
       /\ NetShutdownClose
       /\ NetDeviceClose(1, closeOk)
       /\ UNCHANGED <<arp_vars, sched_vars, net_vars, event_vars,
                      timer_vars, irq_vars, mutex, out>>
  \/ IntrShutdownKill /\ UNCHANGED not_intr
  \/ IntrShutdownJoin /\ UNCHANGED not_intr
  \/ \E who \in {"user", "handler"}, len \in {DevMtu, DevMtu + 1} :
       /\ who = "handler" => ethr.pc = "handler"
       /\ NetDeviceOutputCheck(who, 1, len)
       /\ UNCHANGED <<arp_vars, sched_vars, intr_vars, net_vars, event_vars,
                      timer_vars, irq_vars, mutex>>
  \/ \E txOk \in BOOLEAN :
       /\ NetDeviceOutputTransmit(txOk)
       /\ UNCHANGED <<arp_vars, sched_vars, intr_vars, net_vars, event_vars,
                      timer_vars, irq_vars, mutex>>

SpecShutdown == InitDev /\ [][NextShutdown]_vars

(***************************************************************************)
(* The specification of the event subscriptions.                           *)
(***************************************************************************)
InitEvent == ArpInit /\ StackInit

NextEvent ==
  \/ \E arg \in EventArgs, allocOk \in BOOLEAN :
       NetEventSubscribe(arg, allocOk) /\ UNCHANGED not_event
  \/ NetRaiseEvent /\ UNCHANGED not_event
  \/ NetEventHandler /\ UNCHANGED not_event

SpecEvent == InitEvent /\ [][NextEvent]_vars

(***************************************************************************)
(* The specification of the periodic timers.                               *)
(***************************************************************************)
InitTimer == ArpInit /\ StackInit

NextTimer ==
  \/ ClockAdvance /\ UNCHANGED not_timer
  \/ \E interval \in Intervals, allocOk \in BOOLEAN :
       NetTimerRegister(interval, allocOk) /\ UNCHANGED not_timer
  \/ NetTimerEnter /\ UNCHANGED not_timer
  \/ NetTimerStep /\ UNCHANGED not_timer

SpecTimer == InitTimer /\ [][NextTimer]_vars

(***************************************************************************)
(* The specification of IRQ registration.                                  *)
(***************************************************************************)
InitIrq == ArpInit /\ StackInit

NextIrq ==
  \E irq \in IrqNumbers, flags \in IrqFlags, allocOk \in BOOLEAN :
    IntrRequestIrq(irq, flags, allocOk) /\ UNCHANGED not_irq

SpecIrq == InitIrq /\ [][NextIrq]_vars

(***************************************************************************)
(* Properties of the ARP resolver.                                         *)
(***************************************************************************)
\* the entry a lookup of pa meets: the lowest slot that is not FREE and
\* holds pa, NULL if there is none
FirstEntry(c, pa) ==
  IF \E i \in Slots : c[i].state # ARP_CACHE_STATE_FREE /\ c[i].pa = pa
  THEN CHOOSE i \in Slots :
         /\ c[i].state # ARP_CACHE_STATE_FREE /\ c[i].pa = pa
         /\ \A j \in Slots :
              (c[j].state # ARP_CACHE_STATE_FREE /\ c[j].pa = pa) => i <= j
  ELSE NULL

\* C1: in every reachable state at most one non-FREE slot holds any given
\* protocol address, whatever the interleaving of arp_resolve with the two
\* locked sections of arp_input
C1_CacheUnique ==
  \A i, j \in Slots :
    (/\ caches[i].state # ARP_CACHE_STATE_FREE
     /\ caches[j].state # ARP_CACHE_STATE_FREE
     /\ caches[i].pa = caches[j].pa) => i = j

NoFreeSlot(c) == \A i \in Slots : c[i].state # ARP_CACHE_STATE_FREE

C4_MergeFlag ==
  [][(/\ inp.pc = "iface"
      /\ inp.msg.op = ARP_OP_REPLY
      /\ inp'.pc = "idle")
     => \/ LET i == FirstEntry(caches', inp.msg.spa)
           IN  /\ i # NULL
               /\ caches'[i].state = ARP_CACHE_STATE_RESOLVED
               /\ caches'[i].ha = inp.msg.sha
        \/ /\ inp.marge = 0
           /\ caches' = caches]_vars

C10_FoundIffResolved ==
  [][\A th \in Threads :
       res'[th] # res[th] =>
         /\ \A pa \in Addrs, devEther \in BOOLEAN, familyIp \in BOOLEAN :
              ArpResolveLookup(th, pa, devEther, familyIp) =>
                LET i == FirstEntry(caches, pa)
                    usable == /\ devEther
                              /\ familyIp
                              /\ i # NULL
                              /\ caches[i].state \in
                                   {ARP_CACHE_STATE_RESOLVED,
                                    ARP_CACHE_STATE_STATIC}
                IN  /\ (res'[th].ret = "FOUND") <=> usable
                    /\ usable => res'[th].ha = caches[i].ha
                    /\ ~usable => res'[th].ha = Unwritten
         /\ ArpResolveRequest(th) =>
              /\ res'[th].ret = "INCOMPLETE"
              /\ res'[th].ha = Unwritten]_vars

\* arp_resolve has returned FOUND and written a hardware address
C10_Witness ==
  \E th \in Threads : res[th].ret = "FOUND" /\ res[th].ha \in HwAddrs

\* the entries of one protocol in the order its handler receives them: those
\* the handler was called with, then those still queued
HandlerOrder(t) == delivered[t] \o queues[t]

\* C6: for every registered protocol type T, the frames of type T reach T's
\* handler in the order in which net_input_handler was called with them,
\* across softirq drains and with frames of other types queued in between:
\* every entry T's handler has received or will receive is a frame of type T,
\* and each was handed to net_input_handler before the entries behind it.
C6_IngressOrder ==
  \A t \in ProtocolTypes :
    LET o == HandlerOrder(t)
    IN  \A i \in 1..Len(o) :
          /\ o[i].type = t
          /\ \A j \in 1..Len(o) : i < j => o[i].id < o[j].id

\* C6 happens: a handler received two frames of its type, a frame of the
\* other type was handed to net_input_handler between them, and a third
\* frame of the handler's type is still queued
C6_Witness ==
  \E t \in ProtocolTypes, u \in ProtocolTypes :
    /\ t # u
    /\ Len(delivered[t]) = 2
    /\ Len(queues[t]) = 1
    /\ \E k \in 1..Len(HandlerOrder(u)) :
         /\ delivered[t][1].id < HandlerOrder(u)[k].id
         /\ HandlerOrder(u)[k].id < delivered[t][2].id

\* C7: after sched_interrupt, every thread that was parked in sched_sleep at
\* that moment returns -1 with EINTR, and so does, without parking, every
\* thread that calls sched_sleep before the last of those waiters has
\* returned, whatever sched_wakeup and sched_interrupt calls come in between.
C7_InterruptedSleepers ==
  [][\A th \in Sleepers :
       /\ (SchedSleepReturn(th) /\ th \in marked) => slp'[th].ret = "EINTR"
       /\ (SchedSleepEnter(th) /\ marked # {})
            => slp'[th] = [pc |-> "out", ret |-> "EINTR"]]_vars

\* C7 happens: one of the interrupted waiters has returned EINTR, another is
\* still to return, and a thread that called sched_sleep in between came
\* back at once with EINTR
C7_Witness ==
  \E a \in Sleepers, b \in Sleepers, c \in Sleepers :
    /\ a # b /\ a # c /\ b # c
    /\ a \in marked
    /\ slp[a].pc = "woken"
    /\ slp[b] = [pc |-> "out", ret |-> "EINTR"]
    /\ slp[c] = [pc |-> "out", ret |-> "EINTR"]
    /\ ctx.wc = 1
    /\ ctx.interrupted = 1

\* C8: when net_shutdown is called while a handler is executing on the event
\* thread, the handler runs to completion (the thread leaves it only by its
\* return to the loop), the event thread then leaves its loop, net_shutdown
\* returns, and only after the thread has returned and been joined, and once
\* net_shutdown has returned no handler executes.
C8_ShutdownInFlight ==
  /\ [][ethr.pc = "handler" => ethr'.pc \in {"handler", "test"}]_vars
  /\ [](inflight => (mainpc = "down" => ethr.pc = "exited"))
  /\ [][(inflight /\ mainpc = "down") => ethr'.pc = "exited"]_vars
  /\ ((inflight /\ mainpc = "shutdown")
        ~> (mainpc = "down" /\ ethr.pc = "exited"))

\* C8 happens: net_shutdown, called with a handler in flight, has returned
C8_Witness == inflight /\ mainpc = "down" /\ ethr.pc = "exited" /\ ethr.terminate

\* intr_run has returned 0 to net_run, and net_shutdown has not been called
RunReturnedSuccess == mainpc \in {"open", "running"}

\* C9: in every state where net_run (through intr_run) has returned success,
\* the event thread is inside its sigwait loop: not still in the interval
\* timer setup that precedes the loop, and not terminated by its failure.
C9_RunReturnsInLoop ==
  RunReturnedSuccess => ethr.pc \in {"test", "wait", "handler"}

\* C11: for every valid message arp_input handles, it sends an ARP reply,
\* and exactly one, if and only if the opcode is REQUEST and TPA is the
\* IPv4 unicast address of the receiving device; the reply has our hardware
\* and protocol address as source, (SHA, SPA) as target and SHA as Ethernet
\* destination.  In every other case (reply opcode, TPA not ours, device
\* without an IPv4 interface) no frame is sent.
C11_ReplyIffRequestForUs ==
  [][
     /\ \A hasIface \in BOOLEAN :
          (inp.pc = "iface" /\ ArpInputInsert(hasIface)) =>
            /\ (inp'.pc = "reply") <=>
                 (/\ inp.msg.op = ARP_OP_REQUEST
                  /\ hasIface
                  /\ inp.msg.tpa = OurIp)
            /\ (inp'.pc # "reply") => (inp'.pc = "idle")
     /\ (inp.pc = "reply" /\ inp' # inp) =>
          /\ inp'.pc = "idle"
          /\ wire' = [len |-> ARP_ETHER_IP_SIZE, hrd |-> ARP_HRD_ETHER,
                      pro |-> ARP_PRO_IP, hln |-> ETHER_ADDR_LEN,
                      pln |-> IP_ADDR_LEN, op |-> ARP_OP_REPLY,
                      sha |-> OurHa, spa |-> OurIp,
                      tha |-> inp.msg.sha, tpa |-> inp.msg.spa,
                      dst |-> inp.msg.sha]
     /\ (inp.pc # "reply") => (wire' = wire)
  ]_vars

\* C11 happens: arp_input has returned from a request for our address, the
\* reply to its sender is out and the sender is in the cache
C11_Witness ==
  /\ inp.pc = "idle"
  /\ wire # NoFrame
  /\ wire.dst \in HwAddrs
  /\ \E i \in Slots :
       /\ caches[i].state = ARP_CACHE_STATE_RESOLVED
       /\ caches[i].pa = wire.tpa
       /\ caches[i].ha = wire.tha

\* the (pa, ha, state) triples of the slots that are not FREE
CachedEntries(c) ==
  {<<c[i].pa, c[i].ha, c[i].state>> :
     i \in {j \in Slots : c[j].state # ARP_CACHE_STATE_FREE}}

\* C12 as stated: arp_input of a REPLY whose sender protocol address has no
\* cached entry inserts no entry, whatever its TPA: the non-FREE entries
\* are the same after the call as before it.
C12_ReplyNoInsert ==
  [][(/\ inp.pc = "iface"
      /\ inp.msg.op = ARP_OP_REPLY
      /\ arp_cache_select(caches, inp.msg.spa) = NULL)
       => CachedEntries(caches') = CachedEntries(caches)]_vars

\* C12 amended: arp_input of a REPLY whose sender protocol address has no
\* cached entry leaves the cache unchanged when TPA is not the IPv4 unicast
\* address of the receiving device or the device has no IPv4 interface;
\* when TPA is that address it writes (SPA, SHA, RESOLVED) into the slot
\* arp_cache_alloc chooses (the first FREE slot, else the oldest) and
\* leaves every other slot unchanged.
C12_ReplyInsertsOnlyForUs ==
  [][\A hasIface \in BOOLEAN :
       (/\ inp.pc = "iface"
        /\ inp.msg.op = ARP_OP_REPLY
        /\ arp_cache_select(caches, inp.msg.spa) = NULL
        /\ ArpInputInsert(hasIface))
         => IF hasIface /\ inp.msg.tpa = OurIp
            THEN LET i == arp_cache_alloc(caches).slot
                 IN  /\ caches'[i].state = ARP_CACHE_STATE_RESOLVED
                     /\ caches'[i].pa = inp.msg.spa
                     /\ caches'[i].ha = inp.msg.sha
                     /\ \A j \in Slots \ {i} : caches'[j] = caches[j]
                     /\ inp'.pc = "idle"
            ELSE caches' = caches /\ inp'.pc = "idle"]_vars

\* C12 happens: no request for our address has been answered so far, yet
\* the cache holds a RESOLVED entry for an address that was never
\* provisioned: a reply for our address has put it there
C12_Witness ==
  /\ inp.pc = "idle"
  /\ wire = NoFrame
  /\ \E i \in Slots :
       /\ caches[i].state = ARP_CACHE_STATE_RESOLVED
       /\ caches[i].pa # 1

\* C13: net_device_output returns an error and does not call the driver's
\* transmit when the device is not UP or the length exceeds the mtu; on an
\* UP device a length up to and including the mtu is passed to the driver,
\* and the call returns an error exactly when transmit fails.
C13_OutputContract ==
  [][\A d \in Devs, len \in Lens, txOk \in BOOLEAN :
       (devret'.op = "output" /\ NetDeviceOutput(d, len, txOk)) =>
         /\ (~devices[d].up \/ len > devices[d].mtu) =>
              /\ devret'.ret = -1
              /\ devices' = devices
         /\ (devices[d].up /\ len <= devices[d].mtu) =>
              /\ devices'[d].tx = devices[d].tx + 1
              /\ devret'.ret = IF txOk THEN 0 ELSE -1]_vars

\* C13 happens: a payload of exactly the mtu has gone to the driver of an
\* UP device and the call has returned success
C13_Witness ==
  /\ devret.op = "output"
  /\ devret.arg = DevMtu
  /\ devret.ret = 0
  /\ devices[devret.dev].up
  /\ devices[devret.dev].tx > 0

\* the places of the list that hold an interface of this family
FamilyPlaces(ifaces, family) ==
  {k \in 1..Len(ifaces) : ifaces[k].family = family}

\* C14: every device holds at most one interface per family; an add of a
\* family the device has returns an error and leaves the list unchanged,
\* any other add puts the interface on the list; net_device_get_iface
\* returns the one interface of the family, or none.
C14_OneIfacePerFamily ==
  [][/\ \A d \in Devs, family \in Families :
          Cardinality(FamilyPlaces(devices'[d].ifaces, family)) <= 1
     /\ \A d \in Devs, family \in Families :
          (devret'.op = "add_iface" /\ NetDeviceAddIface(d, family)) =>
            IF FamilyPlaces(devices[d].ifaces, family) # {}
            THEN devret'.ret = -1 /\ devices' = devices
            ELSE /\ devret'.ret = 0
                 /\ FamilyPlaces(devices'[d].ifaces, family) # {}
     /\ \A d \in Devs, family \in Families :
          (devret'.op = "get_iface" /\ NetDeviceGetIface(d, family)) =>
            LET at == FamilyPlaces(devices[d].ifaces, family)
            IN  IF at = {}
                THEN devret'.ret = NoIface
                ELSE \A k \in at : devret'.ret = devices[d].ifaces[k]]_vars

\* C14 happens: a device holds an interface of each family and the last
\* add on it was refused
C14_Witness ==
  /\ devret.op = "add_iface"
  /\ devret.ret = -1
  /\ \A family \in Families :
       FamilyPlaces(devices[devret.dev].ifaces, family) # {}

\* C15 as stated: net_input_handler with a type no protocol is registered
\* for leaves every queue unchanged, raises no softirq and returns 0; with
\* a registered type it appends one entry with the payload and the device
\* to the queue of that protocol only and raises the softirq.
C15_InputEffect ==
  [][\A type \in FrameTypes, dev \in Devs, allocOk \in BOOLEAN,
        pushOk \in BOOLEAN :
       (nframes' # nframes /\ NetInputHandler(type, dev, allocOk, pushOk)) =>
         IF net_protocol_lookup(protocols, type) = NULL
         THEN queues' = queues /\ raised' = raised /\ netret' = 0
         ELSE /\ queues' = [queues EXCEPT ![type] =
                   Append(@, [id |-> nframes', type |-> type, dev |-> dev])]
              /\ raised']_vars

\* C15 amended: as stated when the allocation of the entry and the push
\* succeed, and then the call returns 0; when the type is registered and
\* the allocation or the push fails, the call returns -1, leaves every
\* queue unchanged and raises no softirq.
C15_InputEffectUnlessFailure ==
  [][\A type \in FrameTypes, dev \in Devs, allocOk \in BOOLEAN,
        pushOk \in BOOLEAN :
       (nframes' # nframes /\ NetInputHandler(type, dev, allocOk, pushOk)) =>
         IF net_protocol_lookup(protocols, type) = NULL
         THEN queues' = queues /\ raised' = raised /\ netret' = 0
         ELSE IF allocOk /\ pushOk
         THEN /\ queues' = [queues EXCEPT ![type] =
                   Append(@, [id |-> nframes', type |-> type, dev |-> dev])]
              /\ raised'
              /\ netret' = 0
         ELSE queues' = queues /\ raised' = raised /\ netret' = -1]_vars

\* C15 happens: a frame of a registered type is queued with the softirq
\* raised, and a later frame of a registered type was refused
C15_Witness ==
  /\ netret = -1
  /\ raised
  /\ \E t \in ProtocolTypes : Len(queues[t]) = 1
  /\ nframes >= 2

\* C16: on a softirq the event thread visits the registered protocols in
\* the order of their registration, first registered first: the protocol
\* whose queue it is draining as the k-th of the walk is the k-th that was
\* registered.
C16_DrainInRegistrationOrder ==
  (drain # NULL /\ drain <= Len(protocols))
    => protocols[drain] = registered[drain]

\* C17: on an event notification net_event_handler calls every subscribed
\* callback exactly once with its own argument, in the order in which the
\* subscriptions were made with net_event_subscribe.
C17_CallbacksInSubscriptionOrder ==
  [][NetEventHandler =>
       /\ Len(evcalls') = Len(events)
       /\ \A k \in 1..Len(events) :
            \E i \in 1..Len(evcalls') : evcalls'[i] = events[k]
       /\ \A i \in 1..Len(evcalls'), j \in 1..Len(evcalls') :
            i < j => evcalls'[i].id < evcalls'[j].id]_vars

\* the timer net_timer_handler is at
VisitedTimer == timers[tick.pos]

\* net_timer_handler is at a timer and takes its turn of the loop
AtTimer == tick.pos # NULL /\ tick.pos <= Len(timers) /\ tick' # tick

\* C18: on a tick net_timer_handler calls a timer's callback if and only
\* if now - last >= interval, so also when the elapsed time is exactly the
\* interval, and sets last to now for the timers it fired; a timer that is
\* not due keeps its last.
C18_FiresWhenIntervalElapsed ==
  [][AtTimer =>
       LET due == tclock - VisitedTimer.last >= VisitedTimer.interval
       IN  /\ (Len(tick'.calls) = Len(tick.calls) + 1) <=> due
           /\ timers'[tick.pos].last =
                IF due THEN tclock ELSE VisitedTimer.last
           /\ \A k \in 1..Len(timers) :
                k # tick.pos => timers'[k] = timers[k]]_vars

\* C19: however long ago a timer last fired, one tick calls its callback at
\* most once, and a callback that is called restarts the period from now:
\* last becomes the time read in this turn, and the call was made only
\* after at least a full interval since the previous last.
C19_NoReplayOfMissedPeriods ==
  [][/\ \A i \in 1..Len(tick'.calls), j \in 1..Len(tick'.calls) :
          tick'.calls[i].id = tick'.calls[j].id => i = j
     /\ (AtTimer /\ Len(tick'.calls) = Len(tick.calls) + 1) =>
          /\ timers'[tick.pos].last = tclock
          /\ tclock - VisitedTimer.last >= VisitedTimer.interval
          /\ tick'.calls[Len(tick'.calls)].id = VisitedTimer.id]_vars

\* C19 happens: a tick has ended in which a timer was called once although
\* two or more of its intervals had gone by, and its period starts from the
\* time of that call
C19_Witness ==
  /\ tick.pos = NULL
  /\ \E k \in 1..Len(timers), i \in 1..Len(tick.calls) :
       /\ tick.calls[i].id = timers[k].id
       /\ tick.calls[i].diff >= 2 * timers[k].interval
       /\ timers[k].last <= tclock
       /\ timers[k].last > 0
       /\ \A j \in 1..Len(tick.calls) :
            tick.calls[j].id = timers[k].id => j = i

\* a flags word declares the handler shared
DeclaresShared(flags) == flags % 2 = 1

\* the places of the irqs list registered on this number
SameIrq(list, irq) == {k \in 1..Len(list) : list[k].irq = irq}

\* C20: intr_request_irq for a number that has a handler succeeds only if
\* the new registration and every handler on that number declare
\* themselves shared; a call that fails leaves the irqs list unchanged, and
\* a call with a mixed declaration fails.  Hence any two entries with the
\* same number both declare themselves shared.
C20_SharedOrRejected ==
  [][/\ \A j \in 1..Len(irqs'), k \in 1..Len(irqs') :
          (j # k /\ irqs'[j].irq = irqs'[k].irq) =>
            DeclaresShared(irqs'[j].flags) /\ DeclaresShared(irqs'[k].flags)
     /\ \A irq \in IrqNumbers, flags \in IrqFlags, allocOk \in BOOLEAN :
          IntrRequestIrq(irq, flags, allocOk) =>
            LET same == SameIrq(irqs, irq)
                allShared ==
                  /\ DeclaresShared(flags)
                  /\ \A k \in same : DeclaresShared(irqs[k].flags)
            IN  /\ (same # {} /\ irqret'.ret = 0) => allShared
                /\ (same # {} /\ ~allShared) => irqret'.ret = -1
                /\ irqret'.ret = -1 => (irqs' = irqs /\ sigmask' = sigmask)
                /\ irqret'.ret = 0 =>
                     /\ irqs' = <<[irq |-> irq, flags |-> flags]>> \o irqs
                     /\ irq \in sigmask']_vars

\* C20 happens: two handlers share a number, both declared shared, and a
\* third registration on that number that does not declare itself shared
\* was refused
C20_Witness ==
  /\ irqret.ret = -1
  /\ ~DeclaresShared(irqret.flags)
  /\ Cardinality(SameIrq(irqs, irqret.irq)) = 2
  /\ \A k \in SameIrq(irqs, irqret.irq) : DeclaresShared(irqs[k].flags)

\* C21: the interrupted flag goes from set to clear only in the step in
\* which a sleeper returning from sched_sleep brings wc to zero; while a
\* waiter that was parked at the time of the interrupt has not returned the
\* flag is set, and the return of the last such waiter clears it.
C21_FlagClearsWithLastWaiter ==
  [][/\ (ctx.interrupted # 0 /\ ctx'.interrupted = 0) =>
          /\ ctx.wc = 1
          /\ ctx'.wc = 0
          /\ \E th \in Sleepers : SchedSleepReturn(th)
     /\ marked' # {} => ctx'.interrupted # 0
     /\ \A th \in Sleepers :
          (marked = {th} /\ SchedSleepReturn(th)) => ctx'.interrupted = 0
    ]_vars

\* C21 happens: two threads have come back from sched_sleep with EINTR, no
\* waiter is left and the flag is clear again
C21_Witness ==
  /\ ctx = [interrupted |-> 0, wc |-> 0]
  /\ marked = {}
  /\ \E a \in Sleepers, b \in Sleepers :
       /\ a # b
       /\ slp[a] = [pc |-> "out", ret |-> "EINTR"]
       /\ slp[b] = [pc |-> "out", ret |-> "EINTR"]

\* C28: after a sched_interrupt called with no waiter counted, the flag is
\* set with wc zero, and every later sched_sleep, sched_wakeup and
\* sched_interrupt leaves it so: each sched_sleep returns EINTR at once,
\* parks nobody and does not change wc, and no step clears the flag.
C28_InterruptWithoutWaitersSticks ==
  [][/\ (ctx.wc = 0 /\ SchedInterrupt) =>
          ctx' = [interrupted |-> 1, wc |-> 0]
     /\ (ctx.interrupted # 0 /\ ctx.wc = 0) =>
          /\ ctx' = ctx
          /\ \A th \in Sleepers :
               slp'[th].pc = "out"
          /\ \A th \in Sleepers :
               SchedSleepEnter(th) =>
                 slp'[th] = [pc |-> "out", ret |-> "EINTR"]]_vars

\* C28 happens: the flag is set with no waiter counted, and two threads
\* that called sched_sleep since have come back with EINTR
C28_Witness ==
  /\ ctx = [interrupted |-> 1, wc |-> 0]
  /\ \E a \in Sleepers, b \in Sleepers :
       /\ a # b
       /\ slp[a] = [pc |-> "out", ret |-> "EINTR"]
       /\ slp[b] = [pc |-> "out", ret |-> "EINTR"]

\* C23: while the cache holds an INCOMPLETE entry for P, every arp_resolve
\* of P leaves the cache as it is, goes on to arp_request and returns
\* INCOMPLETE after handing one broadcast request for P to the device, with
\* our hardware and protocol address as the sender and a zeroed target
\* hardware address; an arp_resolve that creates an INCOMPLETE entry for P
\* has missed P
C23_IncompleteResolveRepeatsRequest ==
  [][LET HasIncomplete(c, pa) ==
           \E i \in Slots :
             c[i].state = ARP_CACHE_STATE_INCOMPLETE /\ c[i].pa = pa
     IN
     /\ \A th \in Threads, pa \in Addrs :
          (HasIncomplete(caches, pa) /\ ArpResolveLookup(th, pa, TRUE, TRUE))
            => /\ caches' = caches
               /\ res'[th].pc = "request"
               /\ res'[th].pa = pa
     /\ \A th \in Threads :
          (res[th].pc = "request" /\ res'[th].pc = "idle")
            => /\ res'[th].ret = "INCOMPLETE"
               /\ caches' = caches
               /\ wire' = [len |-> ARP_ETHER_IP_SIZE, hrd |-> ARP_HRD_ETHER,
                           pro |-> ARP_PRO_IP, hln |-> ETHER_ADDR_LEN,
                           pln |-> IP_ADDR_LEN, op |-> ARP_OP_REQUEST,
                           sha |-> OurHa, spa |-> OurIp, tha |-> 0,
                           tpa |-> res[th].pa, dst |-> EtherBroadcast]
     /\ \A pa \in Addrs :
          (~HasIncomplete(caches, pa) /\ HasIncomplete(caches', pa))
            => /\ arp_cache_select(caches, pa) = NULL
               /\ \E th \in Threads :
                    res[th].pc = "idle" /\ res'[th].pc = "request"
    ]_vars

\* C24: arp_input drops a message that is shorter than the fixed size or
\* whose hrd, hln, pro or pln is not that of IPv4 over Ethernet: the cache
\* and the handler stay as they are and no frame is sent; arp_resolve on
\* an interface that is not IP, or whose device is not Ethernet, returns
\* ERROR with the cache as it is and no frame sent
C24_MalformedAndUnsupportedDropped ==
  [][
     /\ \A m \in Msgs :
          ( /\ \/ m.len < ARP_ETHER_IP_SIZE
               \/ m.hrd # ARP_HRD_ETHER
               \/ m.hln # ETHER_ADDR_LEN
               \/ m.pro # ARP_PRO_IP
               \/ m.pln # IP_ADDR_LEN
            /\ ArpInputUpdate(m) )
            => /\ caches' = caches
               /\ inp' = InpIdle
               /\ wire' = wire
     /\ \A th \in Threads, devEther \in BOOLEAN, familyIp \in BOOLEAN :
          ( /\ ~devEther \/ ~familyIp
            /\ ArpResolveLookup(th, OurIp, devEther, familyIp) )
            => /\ res'[th].pc = "idle"
               /\ res'[th].ret = "ERROR"
               /\ caches' = caches
               /\ wire' = NoFrame
    ]_vars

\* C24 happens: arp_resolve on an unsupported interface has returned ERROR
\* on a cache that holds an entry learnt from a reply, and the malformed
\* messages that came in have left the handler idle
C24_Witness ==
  /\ inp.pc = "idle"
  /\ wire = NoFrame
  /\ \E th \in Threads : res[th] = [pc |-> "idle", pa |-> 0,
                                     ret |-> "ERROR", ha |-> Unwritten]
  /\ \E i \in Slots :
       /\ caches[i].state = ARP_CACHE_STATE_RESOLVED
       /\ caches[i].pa # 1

\* C22: no thread holds the mutex of the cache while it hands a frame to
\* net_device_output: the holder is always in front of its work on the
\* cache, never at arp_reply or arp_request; arp_input and arp_resolve
\* return with the mutex released; and the holder never waits for
\* anything: the step that ends with its mutex_unlock can always be taken,
\* so no thread waits for the mutex for ever
C22_MutexReleasedBeforeFrames ==
  /\ [][
        /\ Cardinality(mutex') <= 1
        /\ 0 \in mutex' => inp'.pc \in {"idle", "iface"}
        /\ \A th \in Threads : th \in mutex' => res'[th].pc = "idle"
        /\ (inp.pc = "reply" /\ inp'.pc # "reply")
             => (0 \notin mutex /\ 0 \notin mutex')
        /\ \A th \in Threads :
             (res[th].pc = "request" /\ res'[th].pc # "request")
               => (th \notin mutex /\ th \notin mutex')
        /\ (inp' # inp /\ inp'.pc = "idle") => 0 \notin mutex'
        /\ \A th \in Threads :
             (res'[th] # res[th] /\ res'[th].pc = "idle")
               => th \notin mutex'
       ]_vars
  /\ [](mutex # {} => ENABLED (NextLock /\ mutex' = {}))

\* C22 happens: arp_resolve has sent its request for address 2 and
\* returned, and the event thread holds the mutex for its insert
C22_Witness ==
  /\ mutex = {0}
  /\ inp.pc = "iface"
  /\ wire = arp_request(2)
  /\ devret.op = "output"
  /\ \E th \in Threads : res[th].pc = "idle" /\ res[th].ret = "INCOMPLETE"

\* C25: whether net_device_output takes the frame or returns -1 (device
\* not UP, frame longer than the mtu, driver error), arp_resolve after a
\* miss has left exactly one entry for the address, INCOMPLETE, goes on to
\* its request and returns INCOMPLETE with the cache as it was; arp_input,
\* when its update has hit or its insert is done, has left the sender's
\* entry RESOLVED with the sender's hardware address, and its reply leaves
\* the cache and arp_resolve alone and ends the handler, which has no
\* result to pass on
C25_SendFailureLeavesCache ==
  [][
     /\ \A th \in Threads :
          (res[th].pc = "request" /\ res'[th].pc # "request")
            => /\ devret'.op = "output"
               /\ caches' = caches
               /\ res'[th].pc = "idle"
               /\ res'[th].ret = "INCOMPLETE"
     /\ \A th \in Threads, pa \in Addrs :
          ( /\ mutex = {th}
            /\ arp_cache_select(caches, pa) = NULL
            /\ ArpResolveLookup(th, pa, TRUE, TRUE) )
            => /\ res'[th].pc = "request"
               /\ Cardinality({i \in Slots :
                     /\ caches'[i].state # ARP_CACHE_STATE_FREE
                     /\ caches'[i].pa = pa}) = 1
               /\ \E i \in Slots :
                    /\ caches'[i].state = ARP_CACHE_STATE_INCOMPLETE
                    /\ caches'[i].pa = pa
     /\ (mutex = {0} /\ inp' # inp /\ (inp.pc = "iface" \/ inp'.marge = 1))
          => LET msg == IF inp.pc = "iface" THEN inp.msg ELSE inp'.msg
             IN  \E i \in Slots :
                   /\ caches'[i].state = ARP_CACHE_STATE_RESOLVED
                   /\ caches'[i].pa = msg.spa
                   /\ caches'[i].ha = msg.sha
     /\ (inp.pc = "reply" /\ inp'.pc # "reply")
          => /\ devret'.op = "output"
             /\ caches' = caches
             /\ res' = res
             /\ inp' = InpIdle
    ]_vars

\* C25 happens: arp_resolve of address 1 has returned INCOMPLETE and its
\* entry is there, the request of neighbour 2 has been answered,
\* net_device_output has returned -1 for the reply, and the neighbour's
\* entry is RESOLVED
C25_Witness ==
  /\ inp = InpIdle
  /\ devret.op = "output"
  /\ devret.ret = -1
  /\ wire = arp_reply(1, 2, 1)
  /\ \E th \in Threads : res[th].pc = "idle" /\ res[th].ret = "INCOMPLETE"
  /\ \E i, j \in Slots :
       /\ caches[i].state = ARP_CACHE_STATE_INCOMPLETE
       /\ caches[i].pa = 1
       /\ caches[j].state = ARP_CACHE_STATE_RESOLVED
       /\ caches[j].pa = 2
       /\ caches[j].ha = 1

\* C26: whatever the interleaving of net_device_output with net_shutdown,
\* the driver's transmit is called only on a device that is UP at that
\* moment; net_shutdown has made its call of net_device_close when it
\* sends SIGHUP to the event thread; and a call of net_device_output that
\* starts after net_shutdown has closed the device returns -1 without a
\* transmit
C26_TransmitOnlyWhenUp ==
  [][
     /\ (out.pc = "transmit" /\ out'.pc = "idle") => devices[out.dev].up
     /\ ("SIGHUP" \notin sigpend /\ "SIGHUP" \in sigpend')
          => mainpc = "shutdown"
     /\ \A who \in {"user", "handler"}, len \in Lens :
          ( /\ mainpc \in {"shutdown", "join", "down"}
            /\ ~devices[1].up
            /\ NetDeviceOutputCheck(who, 1, len) )
            => /\ out'.pc = "idle"
               /\ devret' = [op |-> "output", dev |-> 1, arg |-> len,
                             ret |-> -1]
    ]_vars

\* C27: while the event thread is scheduled, every frame net_input_handler
\* has queued is in time popped and passed to the handler of its protocol,
\* and no frame is ever passed twice or passed and still queued, however
\* the raises of the softirq coalesce and wherever the drain is when the
\* frame is queued
C27_AcceptedFramesDelivered ==
  /\ [](\A t \in ProtocolTypes, u \in ProtocolTypes :
         LET o == delivered[t] \o queues[t]
             q == delivered[u] \o queues[u]
         IN  \A i \in 1..Len(o), j \in 1..Len(q) :
               o[i].id = q[j].id => (t = u /\ i = j))
  /\ \A id \in 1..MaxFrames :
       (\E t \in ProtocolTypes :
          \E i \in 1..Len(queues[t]) : queues[t][i].id = id)
         ~> (\E t \in ProtocolTypes :
               /\ \E i \in 1..Len(delivered[t]) :
                    delivered[t][i].id = id /\ delivered[t][i].type = t
               /\ \A i \in 1..Len(queues[t]) : queues[t][i].id # id)

\* C27 happens: a drain is past the protocol at the head of the list, whose
\* handler it has called, and a frame queued for that protocol since waits
\* with the softirq raised again
C27_Witness ==
  /\ drain # NULL
  /\ drain > 1
  /\ raised
  /\ Len(protocols) = 2
  /\ delivered[protocols[1]] # <<>>
  /\ queues[protocols[1]] # <<>>


=============================================================================
